---------------------------- MODULE Spec2Model ----------------------------
(***************************************************************************)
(* A model of the scientific-variable knowledge graph builder:            *)
(*   src/parse_tools.py      NounGroup (segmenter and decomposer)          *)
(*   src/knowledge_graph.py  SciVarKG  (builder, synonym merge, inference) *)
(*                                                                         *)
(* Conventions.                                                            *)
(*  - A term (a Python str of blank-separated words) is a sequence of      *)
(*    words; ' '.join and str.split are then the identity, and the         *)
(*    substring test between terms is the contiguous-sublist test (no word *)
(*    of the vocabulary is a substring of another word).                   *)
(*  - A Python dict is a function; `k in d.keys()` is `k \in DOMAIN d`.    *)
(*    Where the code depends on the iteration order of a dict, the dict is *)
(*    a sequence of [name, attr] entries (noun groups) or comes with the   *)
(*    sequence of its keys in insertion order (the graph: kg.ord).         *)
(*  - An exception is kg.err # NoErr; a raised exception skips the rest of *)
(*    the public call and leaves the mutations made so far in place.       *)
(*  - The external collaborators (tagger, dictionary, ontology search,     *)
(*    encyclopedia) are fixed tables: the same question always gets the    *)
(*    same answer.                                                         *)
(***************************************************************************)
EXTENDS Integers, Sequences, FiniteSets, TLC

(***************************************************************************)
(* Generic helpers for sequences and dicts.                               *)
(***************************************************************************)
Range(s) == {s[i] : i \in DOMAIN s}

InSeq(x, s) == \E i \in DOMAIN s : s[i] = x

\* Python's s[a:] and s[:b] on 0-based indices, for 0 <= a, b <= len(s).
SliceFrom(s, a) == SubSeq(s, a + 1, Len(s))
SliceTo(s, b) == SubSeq(s, 1, b)
Slice(s, a, b) == SubSeq(s, a + 1, b)

\* Python's `a in b` for two str: here, the contiguous-sublist test.
IsSubstring(a, b) ==
    \E i \in 0..(Len(b) - Len(a)) : SubSeq(b, i + 1, i + Len(a)) = a

\* d[k] = v on a dict d (a function): a new key is added, an old one replaced.
DictSet(d, k, v) == (k :> v) @@ d

Max2(a, b) == IF a >= b THEN a ELSE b
Min2(a, b) == IF a <= b THEN a ELSE b

(***************************************************************************)
(* Scores.  A float score is the exact fraction n/d in lowest terms: the   *)
(* arithmetic of the code is modelled without rounding.                    *)
(***************************************************************************)
RECURSIVE GCD(_, _)
GCD(a, b) == IF b = 0 THEN a ELSE GCD(b, a % b)

Rat(n, d) == [n |-> n \div GCD(n, d), d |-> d \div GCD(n, d)]

RatLess(a, b) == a.n * b.d < b.n * a.d

\* max(a, b)
RatMax(a, b) == IF RatLess(a, b) THEN b ELSE a

\* a + b, over the least common denominator
RatAdd(a, b) ==
    LET l == (a.d \div GCD(a.d, b.d)) * b.d
    IN  Rat(a.n * (l \div a.d) + b.n * (l \div b.d), l)

\* a * f / k for a factor f and a count k
RatScale(a, f, k) == Rat(a.n * f.n, a.d * f.d * k)

\* Sequencing: the value of e is computed once and named by F's parameter
\* ("v = e; F(v)").
Then(e, F(_)) == CHOOSE r \in {F(v) : v \in {e}} : TRUE

(***************************************************************************)
(* The tagger (external, Stanza): part of speech and lemma of each word.   *)
(***************************************************************************)
Nouns == {"water", "Water", "h2o", "aqua", "liquid", "fluid", "substance", "mass",
          "soil", "moisture", "conductivity", "terms", "property",
          "properties", "heat", "flow", "color", "basin", "hydrol"}
Adjectives == {"thermal", "wet"}
Adpositions == {"of", "in"}
OtherWords == {"is", "the"}
Words == Nouns \cup Adjectives \cup Adpositions \cup OtherWords

upos(w) ==
    IF w \in Nouns THEN "NOUN"
    ELSE IF w \in Adjectives THEN "ADJ"
    ELSE IF w \in Adpositions THEN "ADP"
    ELSE "X"

lemma_of(w) == IF w = "properties" THEN "property"
               ELSE IF w = "terms" THEN "term"
               ELSE IF w = "Water" THEN "water"
               ELSE w

\* str.lower() on one word and on a term.
LowerWord(w) == IF w = "Water" THEN "water" ELSE w
Lower(t) == [i \in DOMAIN t |-> LowerWord(t[i])]

(***************************************************************************)
(* NounGroup: the segmenter and the decomposer (src/parse_tools.py).      *)
(***************************************************************************)
\* The 0-based start indices of seq in lst.
find_sequence(lst, seq) ==
    {i \in 0..(Len(lst) - 1) :
        /\ i + Len(seq) <= Len(lst)
        /\ \A j \in 1..Len(seq) : lst[i + j] = seq[j]}

\* The position of the first NOUN (0-based), Len(pos_seq) if there is none.
FirstNoun(pos_seq) ==
    IF \E i \in DOMAIN pos_seq : pos_seq[i] = "NOUN"
    THEN (CHOOSE i \in DOMAIN pos_seq :
            /\ pos_seq[i] = "NOUN"
            /\ \A j \in 1..(i - 1) : pos_seq[j] # "NOUN") - 1
    ELSE Len(pos_seq)

\* The rules of extract_type with the second and third rule exchanged.
TypeOfPos_modnoun_first(pos_seq) ==
    IF InSeq("ADPOSITION", pos_seq) THEN "compound"
    ELSE IF InSeq("NOUN", pos_seq) /\ InSeq("ADJECTIVE", pos_seq) THEN "modnoun"
    ELSE IF find_sequence(pos_seq, <<"NOUN", "ADJECTIVE">>) # {} THEN "modnoungrp"
    ELSE IF InSeq("ADJECTIVE", pos_seq) THEN "adj"
    ELSE IF Len(pos_seq) > 1 THEN "noungrp"
    ELSE "noun"

TypeOfPos(pos_seq) ==
    IF InSeq("ADPOSITION", pos_seq) THEN "compound"
    ELSE IF find_sequence(pos_seq, <<"NOUN", "ADJECTIVE">>) # {} THEN "modnoungrp"
    ELSE IF InSeq("NOUN", pos_seq) /\ InSeq("ADJECTIVE", pos_seq) THEN "modnoun"
    ELSE IF InSeq("ADJECTIVE", pos_seq) THEN "adj"
    ELSE IF Len(pos_seq) > 1 THEN "noungrp"
    ELSE "noun"

\* A dict of noun groups in insertion order: groups[w] = a.
NgSet(groups, w, a) ==
    IF \E i \in DOMAIN groups : groups[i].name = w
    THEN [i \in DOMAIN groups |->
            IF groups[i].name = w THEN [name |-> w, attr |-> a] ELSE groups[i]]
    ELSE Append(groups, [name |-> w, attr |-> a])

NgHas(groups, w) == \E i \in DOMAIN groups : groups[i].name = w
NgGet(groups, w) == groups[CHOOSE i \in DOMAIN groups : groups[i].name = w].attr

RECURSIVE AttrDict(_, _, _, _)
\* node_attribute of extract_type: one entry per leading adjective word.
AttrDict(node_attr, lemma_attr, i, acc) ==
    IF i > Len(node_attr) THEN acc
    ELSE AttrDict(node_attr, lemma_attr, i + 1,
                  NgSet(acc, <<node_attr[i]>>,
                        [pos_seq |-> <<"ADJECTIVE">>,
                         lemma_seq |-> <<lemma_attr[i]>>, type |-> "adj"]))

extract_type(node_name, pos_seq, lemma_seq) ==
    LET typ == TypeOfPos(pos_seq)
        split == ~InSeq("ADPOSITION", pos_seq) /\ InSeq("NOUN", pos_seq)
        i == IF split THEN FirstNoun(pos_seq) ELSE 0
        node_type == IF split THEN SliceFrom(node_name, i) ELSE node_name
        lemma == SliceFrom(lemma_seq, i)
        pos == SliceFrom(pos_seq, i)
        node_contain ==
            IF node_type # node_name
            THEN <<[name |-> node_type,
                    attr |-> [pos_seq |-> pos, lemma_seq |-> lemma,
                              type |-> IF Len(lemma) = 1 THEN "noun" ELSE "noungrp"]]>>
            ELSE <<>>
        node_attribute ==
            IF node_type # node_name
            THEN AttrDict(SliceTo(node_name, i), SliceTo(lemma_seq, i), 1, <<>>)
            ELSE <<>>
    IN  [node_contain |-> node_contain, node_attribute |-> node_attribute, typ |-> typ]

set_values(groups, w, ps, ls) ==
    Then(extract_type(w, ps, ls), LAMBDA e :
    Then([pos_seq |-> ps, lemma_seq |-> ls, type |-> e.typ], LAMBDA base :
    Then(IF e.node_contain # <<>> THEN ("has_type" :> e.node_contain) @@ base
         ELSE base, LAMBDA a1 :
         NgSet(groups, w,
               IF e.node_attribute # <<>>
               THEN ("has_attribute" :> e.node_attribute) @@ a1 ELSE a1))))

RECURSIVE DecomposeLoop(_, _, _, _, _, _)
\* The loop over adp_loc of decompose_noun_group: k runs over the (0-based)
\* positions of the cluster, the positions in adp_loc are the loop's steps.
DecomposeLoop(ngroup, pos, lemma, k, start_i, groups) ==
    LET adp_loc == find_sequence(pos, <<"ADPOSITION">>)
        adpnadp_loc == find_sequence(pos, <<"ADPOSITION", "NOUN", "ADPOSITION">>)
    IN
    IF k >= Len(pos)
    THEN IF start_i < Len(ngroup)
         THEN set_values(groups, SliceFrom(ngroup, start_i),
                         SliceFrom(pos, start_i), SliceFrom(lemma, start_i))
         ELSE groups
    ELSE IF k \notin adp_loc
    THEN DecomposeLoop(ngroup, pos, lemma, k + 1, start_i, groups)
    ELSE LET adp == k
             g1 == IF start_i \notin adpnadp_loc /\ start_i \notin adp_loc
                      /\ start_i < adp
                   THEN set_values(groups, Slice(ngroup, start_i, adp),
                                   Slice(pos, start_i, adp), Slice(lemma, start_i, adp))
                   ELSE groups
             s1 == IF adp \in adpnadp_loc THEN adp + 3 ELSE adp + 1
         IN  DecomposeLoop(ngroup, pos, lemma, k + 1, s1, g1)

RECURSIVE DecomposeLoop_keep_window(_, _, _, _, _, _)
\* The loop of decompose_noun_group without adpnadp_loc: every adposition
\* ends a group and the next group starts right after it.
DecomposeLoop_keep_window(ngroup, pos, lemma, k, start_i, groups) ==
    IF k >= Len(pos)
    THEN IF start_i < Len(ngroup)
         THEN set_values(groups, SliceFrom(ngroup, start_i),
                         SliceFrom(pos, start_i), SliceFrom(lemma, start_i))
         ELSE groups
    ELSE IF pos[k + 1] # "ADPOSITION"
    THEN DecomposeLoop_keep_window(ngroup, pos, lemma, k + 1, start_i, groups)
    ELSE DecomposeLoop_keep_window(ngroup, pos, lemma, k + 1, k + 1,
             IF start_i < k /\ pos[start_i + 1] # "ADPOSITION"
             THEN set_values(groups, Slice(ngroup, start_i, k),
                             Slice(pos, start_i, k), Slice(lemma, start_i, k))
             ELSE groups)

decompose_noun_group_keep_window(ngroup, pos, lemma) ==
    IF find_sequence(pos, <<"ADPOSITION">>) = {} THEN <<>>
    ELSE DecomposeLoop_keep_window(ngroup, pos, lemma, 0, 0, <<>>)

decompose_noun_group(ngroup, pos, lemma) ==
    IF find_sequence(pos, <<"ADPOSITION">>) = {} THEN <<>>
    ELSE DecomposeLoop(ngroup, pos, lemma, 0, 0, <<>>)

RECURSIVE StripIndex(_, _, _)
\* The while loop of add_word_cluster: one past the last ADPOSITION before the
\* first NOUN (pos_sequence holds a NOUN: a cluster is opened by one).
StripIndex(pos_sequence, i, start_index) ==
    IF i >= Len(pos_sequence) \/ pos_sequence[i + 1] = "NOUN" THEN start_index
    ELSE StripIndex(pos_sequence, i + 1,
                    IF pos_sequence[i + 1] = "ADPOSITION" THEN i + 1 ELSE start_index)

\* add_word_cluster once the leading words are stripped (lines 1024-1033).
ClusterBody(ng, cw, ps, ls) ==
    Then(IF cw # <<>> THEN set_values(ng, cw, ps, ls) ELSE ng, LAMBDA ng1 :
    Then(decompose_noun_group(cw, ps, ls), LAMBDA groups :
         IF groups # <<>>
         THEN NgSet(ng1, cw, ("components" :> groups) @@ NgGet(ng1, cw))
         ELSE ng1))

\* add_word_cluster without the loop of lines 1015-1020: nothing is stripped.
add_word_cluster_unstripped(ng, current_word, pos_sequence, lemma_sequence) ==
    ClusterBody(ng, current_word, pos_sequence, lemma_sequence)

add_word_cluster(ng, current_word, pos_sequence, lemma_sequence) ==
    Then(StripIndex(pos_sequence, 0, 0), LAMBDA start_index :
         ClusterBody(ng, SliceFrom(current_word, start_index),
                     SliceFrom(pos_sequence, start_index),
                     SliceFrom(lemma_sequence, start_index)))

RECURSIVE ParseLoop(_, _, _, _, _, _, _)
\* parse_noun_groups: the scan of the words in reverse, i the (1-based) position
\* of the word looked at, 0 when the scan is over.
ParseLoop(words, i, group_start, current_word, pos_sequence, lemma_sequence, ng) ==
    IF i = 0
    THEN IF current_word # <<>>
         THEN add_word_cluster(ng, current_word, pos_sequence, lemma_sequence)
         ELSE ng
    ELSE
    LET w == words[i]
        is_noun == upos(w) = "NOUN"
        is_adj == upos(w) = "ADJ"
        is_adp == upos(w) = "ADP"
    IN
    IF is_noun /\ ~group_start
    THEN ParseLoop(words, i - 1, TRUE, <<w>>, <<"NOUN">>, <<lemma_of(w)>>, ng)
    ELSE IF is_noun /\ group_start
    THEN ParseLoop(words, i - 1, TRUE, <<w>> \o current_word,
                   <<"NOUN">> \o pos_sequence, <<lemma_of(w)>> \o lemma_sequence, ng)
    ELSE IF is_adj /\ group_start /\ pos_sequence[1] # "ADPOSITION"
    THEN ParseLoop(words, i - 1, TRUE, <<w>> \o current_word,
                   <<"ADJECTIVE">> \o pos_sequence, <<lemma_of(w)>> \o lemma_sequence, ng)
    ELSE IF is_adp /\ group_start
    THEN ParseLoop(words, i - 1, TRUE, <<w>> \o current_word,
                   <<"ADPOSITION">> \o pos_sequence, <<lemma_of(w)>> \o lemma_sequence, ng)
    ELSE IF current_word # <<>>
    THEN ParseLoop(words, i - 1, FALSE, <<>>, <<>>, lemma_sequence,
                   add_word_cluster(ng, current_word, pos_sequence, lemma_sequence))
    ELSE ParseLoop(words, i - 1, FALSE, current_word, pos_sequence, lemma_sequence, ng)

\* NounGroup(words).ng
parse_noun_groups(words) == ParseLoop(words, Len(words), FALSE, <<>>, <<>>, <<>>, <<>>)

(***************************************************************************)
(* The external lookups.  Each is a table over the vocabulary.             *)
(***************************************************************************)
\* A sentence of a page: its words and, when the dependency parse makes it
\* an "is" statement, the subject of that statement (<<>> otherwise).
Sent(words, nsubj) == [words |-> words, nsubj |-> nsubj]

\* An encyclopedia answer (wikipediaapi.get_wikipedia_text): the paragraphs
\* of the page, the disambiguation flag, the title and the redirect title.
Page(text, title, redirect) ==
    [text |-> text, disambig |-> FALSE, title |-> title, redirecttitle |-> redirect]

\* A page about term t that defines it by d and then mentions r, in one paragraph.
DefPage(t, d, r) ==
    Page(<< <<Sent(t \o <<"is">> \o d, t), Sent(<<"the">> \o r, <<>>),
              Sent(<<"the", "wet">> \o t, <<>>)>> >>, t, <<>>)

\* A page about t with a single paragraph that holds no "is" statement.
PlainPage(t) == Page(<< <<Sent(<<"the">> \o t, <<>>)>> >>, t, <<>>)

get_wikipedia_text(name) ==
    IF name = <<"moisture">> THEN
        \* two sentences only
        Page(<< <<Sent(<<"moisture", "is", "water">>, <<"moisture">>),
                  Sent(<<"the", "soil">>, <<>>)>> >>, <<"moisture">>, <<>>)
    ELSE IF name = <<"water">> THEN DefPage(<<"water">>, <<"liquid">>, <<"heat">>)
    ELSE IF name = <<"liquid">> THEN DefPage(<<"liquid">>, <<"fluid">>, <<"heat">>)
    ELSE IF name = <<"fluid">> THEN DefPage(<<"fluid">>, <<"substance">>, <<"heat">>)
    \* "aqua" redirects to the page "water"
    ELSE IF name = <<"aqua">> THEN
        [DefPage(<<"water">>, <<"liquid">>, <<"heat">>)
            EXCEPT !.redirecttitle = <<"aqua">>]
    \* "h2o" redirects to a page titled "aqua"
    ELSE IF name = <<"h2o">> THEN
        [PlainPage(<<"aqua">>) EXCEPT !.redirecttitle = <<"h2o">>]
    \* "hydrol", a word unknown to the dictionary and the ontology, redirects
    \* to the page titled "aqua" too
    ELSE IF name = <<"hydrol">> THEN
        [PlainPage(<<"aqua">>) EXCEPT !.redirecttitle = <<"hydrol">>]
    \* a definition paragraph of one sentence
    ELSE IF name = <<"conductivity">> THEN
        Page(<< <<Sent(<<"conductivity", "is", "heat">>, <<"conductivity">>)>> >>,
             <<"conductivity">>, <<>>)
    \* the search for "terms" has no result
    ELSE IF name = <<"terms">> THEN Page(<<>>, <<>>, <<>>)
    \* the top result for "soil" is a disambiguation page
    ELSE IF name = <<"soil">> THEN [PlainPage(<<"soil">>) EXCEPT !.disambig = TRUE]
    \* the top result for "heat" is another page
    ELSE IF name = <<"heat">> THEN PlainPage(<<"thermal", "conductivity">>)
    ELSE PlainPage(name)

\* The dictionary (wwn.get_category): the categories of a term in the order
\* get_category fills them, each with its definition text (one sentence).
Cat(c, d) == [category |-> c, definition |-> d]

get_category(term) ==
    IF term = <<"water">> THEN <<Cat("Matter", <<"the", "liquid">>),
                                Cat("Property", <<"wet", "substance">>)>>
    ELSE IF term = <<"aqua">> THEN <<Cat("Property", <<"the", "fluid">>),
                                    Cat("Body", <<"the", "soil">>)>>
    ELSE IF term = <<"h2o">> THEN <<Cat("Matter", <<"the", "liquid">>)>>
    \* water is defined by liquid and liquid by water
    ELSE IF term = <<"liquid">> THEN <<Cat("Matter", <<"the", "water">>)>>
    ELSE IF term = <<"thermal", "conductivity">>
    THEN <<Cat("Property", <<"property", "of", "heat">>)>>
    ELSE IF term = <<"property">> THEN <<Cat("Attribute", <<"the", "property">>)>>
    ELSE IF term = <<"color">> THEN <<Cat("Attribute", <<"the", "color">>)>>
    ELSE IF term = <<"basin">> THEN <<Cat("Body", <<"the", "basin">>)>>
    ELSE <<>>

\* The ontology search (svoapi.rank_search): one row per entity, in the order
\* of np.unique over the entity URIs; rank in thousandths, 1000 an exact match.
Row(ns, ent, cls, rank) ==
    [namespace |-> ns, entity |-> ent, entityclass |-> cls, rank |-> rank,
     entitypreflabel |-> ent]

ExactRank == 1000

\* The rank of a row as a score.
Score(rank) == Rat(rank, ExactRank)

rank_search(name, lemma) ==
    IF name = "water" THEN <<Row("svu", "water", "Matter", ExactRank),
                             Row("svu", "water_mass", "Variable", 400),
                             Row("svu", "water_body", "Phenomenon", 500)>>
    ELSE IF name = "aqua" THEN <<Row("svu", "aqua", "Matter", ExactRank),
                                 Row("svu", "water_mass", "Variable", 600),
                                 Row("svu", "water_flow", "Variable", 300),
                                 Row("svu", "water_body", "Phenomenon", 200)>>
    ELSE IF name = "h2o" THEN <<Row("svu", "h2o", "Form", ExactRank),
                                Row("svu", "water_mass", "Variable", 700)>>
    ELSE IF name = "mass" THEN <<Row("svu", "mass", "Property", ExactRank)>>
    ELSE IF name = "flow" THEN <<Row("svu", "flow", "Process", ExactRank),
                                 Row("svu", "water_flow", "Variable", 200)>>
    ELSE IF lemma = "property" THEN <<Row("svu", "property", "Property", ExactRank)>>
    ELSE <<>>

\* Python's hash() of the concatenation of the pieces: the pieces themselves.
hash(pieces) == pieces

(***************************************************************************)
(* SciVarKG (src/knowledge_graph.py).  The object is the record            *)
(*   kg = [g, ord, im, svo, err, sub, lev, inf]                            *)
(* g the graph (term -> node), ord the keys of g in insertion order, im    *)
(* index_map, svo svo_index_map, err the exception raised (NoErr if none). *)
(* A node is a dict from field names to values.  sub and lev are the trace *)
(* of the running call: the recursive add_term_node calls made (caller's   *)
(* term, callee's term) and the recursive create_concept_levels calls made *)
(* (caller's noun group and depth, callee's variable and depth); inf is    *)
(* the trace of graph_add_var_entity_links: per term, link and score map,  *)
(* the scores read (and those the linked terms held when the sweep for the *)
(* link began), the values computed and the map before and after.          *)
(***************************************************************************)
NoErr == "none"

category_names ==
    {<<"process">>, <<"property">>, <<"phenomenon">>, <<"role">>, <<"attribute">>,
     <<"matter">>, <<"body">>, <<"domain">>, <<"operator">>, <<"variable">>,
     <<"part">>, <<"trajectory">>, <<"form">>, <<"condition">>, <<"state">>,
     <<"abstraction">>, <<"equation">>, <<"expression">>}

Raise(kg, e) == [kg EXCEPT !.err = e]

\* The trace of a recursive call of add_term_node, of create_concept_levels.
NoteTerm(kg, word, sub_word) ==
    IF kg.err # NoErr THEN kg
    ELSE [kg EXCEPT !.sub = @ \cup {[of |-> word, to |-> sub_word]}]

NoteLevel(kg, noung, depth, n, sub_depth) ==
    IF kg.err # NoErr THEN kg
    ELSE [kg EXCEPT !.lev = @ \cup {[of |-> noung, depth |-> depth,
                                     to |-> n, to_depth |-> sub_depth]}]

\* self.graph[key][field] = v
GSet(kg, key, field, v) ==
    IF key \notin DOMAIN kg.g THEN Raise(kg, "KeyError")
    ELSE [kg EXCEPT !.g = DictSet(@, key, DictSet(kg.g[key], field, v))]

\* The idiom "if not field in graph[key]: graph[key][field] = [v]
\*            elif not v in graph[key][field]: graph[key][field].append(v)".
ListAdd(kg, key, field, v) ==
    IF kg.err # NoErr THEN kg
    ELSE IF key \notin DOMAIN kg.g THEN Raise(kg, "KeyError")
    ELSE IF field \notin DOMAIN kg.g[key] THEN GSet(kg, key, field, <<v>>)
    ELSE IF ~InSeq(v, kg.g[key][field]) THEN GSet(kg, key, field, Append(kg.g[key][field], v))
    ELSE kg

\* The value of isComponentOf: a list of terms, or (line 595) a single str.
StrVal(t) == [isStr |-> TRUE, items |-> <<t>>]
ListVal(l) == [isStr |-> FALSE, items |-> l]

\* An element of a hasSVOMatch list: an entity hash, or (after a merge) a list.
HashItem(h) == [isList |-> FALSE, h |-> h, l |-> <<>>]
ListItem(l) == [isList |-> TRUE, h |-> <<>>, l |-> l]

add_index_map(kg, index, synonym) ==
    IF synonym \notin DOMAIN kg.im /\ index \in DOMAIN kg.g
    THEN [kg EXCEPT !.im = DictSet(@, synonym, index)]
    ELSE kg

add_svo_index_map(kg, svo) ==
    LET svo_hash == hash(<<svo.namespace, svo.entity>>)
    IN  IF svo_hash \notin DOMAIN kg.svo
        THEN [kg EXCEPT !.svo = DictSet(@, svo_hash,
                 [namespace |-> svo.namespace, entity |-> svo.entity,
                  preflabel |-> svo.entitypreflabel, class |-> svo.entityclass])]
        ELSE kg

RECURSIVE WwnLoop(_, _, _, _)
WwnLoop(kg, name_index, categories, i) ==
    IF i > Len(categories) \/ kg.err # NoErr THEN kg
    ELSE WwnLoop(ListAdd(ListAdd(kg, name_index, "hasWWNCategory", categories[i].category),
                         name_index, "hasWWNDefinition", categories[i].definition),
                 name_index, categories, i + 1)

add_wwn_info(kg, name) ==
    IF kg.err # NoErr THEN kg
    ELSE IF name \notin DOMAIN kg.im \/ name \notin DOMAIN kg.g THEN Raise(kg, "KeyError")
    ELSE Then(Lower(kg.g[name].lemma_seq), LAMBDA lemma :
         Then(get_category(name), LAMBDA c0 :
              WwnLoop(kg, kg.im[name],
                      IF c0 = <<>> /\ lemma # <<>> THEN get_category(lemma) ELSE c0, 1)))

RECURSIVE SvoMatchLoop(_, _, _, _)
\* The loop over the exact matches (lines 719-742).
SvoMatchLoop(kg, name_index, rows, i) ==
    IF i > Len(rows) \/ kg.err # NoErr THEN kg
    ELSE SvoMatchLoop(
           Then(add_svo_index_map(kg, rows[i]), LAMBDA k1 :
           Then(HashItem(hash(<<rows[i].namespace, rows[i].entity>>)), LAMBDA item :
           Then(rows[i].entityclass, LAMBDA svo_class :
                IF name_index \notin DOMAIN k1.g THEN Raise(k1, "KeyError")
                ELSE Then(k1.g[name_index], LAMBDA node :
                     IF "hasSVOMatch" \notin DOMAIN node
                     THEN GSet(k1, name_index, "hasSVOMatch", svo_class :> <<item>>)
                     ELSE IF svo_class \notin DOMAIN node.hasSVOMatch
                     THEN GSet(k1, name_index, "hasSVOMatch",
                               DictSet(node.hasSVOMatch, svo_class, <<item>>))
                     ELSE IF ~InSeq(item, node.hasSVOMatch[svo_class])
                     THEN GSet(k1, name_index, "hasSVOMatch",
                               DictSet(node.hasSVOMatch, svo_class,
                                       Append(node.hasSVOMatch[svo_class], item)))
                     ELSE k1)))),
           name_index, rows, i + 1)

RECURSIVE SvoRankLoop(_, _, _, _, _)
\* The loops over the variable matches (745-764) and the other matches (767-787).
SvoRankLoop(kg, name_index, field, rows, i) ==
    IF i > Len(rows) \/ kg.err # NoErr THEN kg
    ELSE SvoRankLoop(
           Then(add_svo_index_map(kg, rows[i]), LAMBDA k1 :
           Then(hash(<<rows[i].namespace, rows[i].entity>>), LAMBDA svo_hash :
           Then(Score(rows[i].rank), LAMBDA rank :
                IF name_index \notin DOMAIN k1.g THEN Raise(k1, "KeyError")
                ELSE Then(k1.g[name_index], LAMBDA node :
                     IF field \notin DOMAIN node
                     THEN GSet(k1, name_index, field, svo_hash :> rank)
                     ELSE IF svo_hash \notin DOMAIN node[field]
                     THEN GSet(k1, name_index, field, DictSet(node[field], svo_hash, rank))
                     ELSE GSet(k1, name_index, field,
                               DictSet(node[field], svo_hash,
                                       RatMax(rank, node[field][svo_hash]))))))),
           name_index, field, rows, i + 1)

IsExact(r) == r.rank = ExactRank
IsVariableMatch(r) == r.entityclass = "Variable" /\ r.rank # ExactRank
IsOtherMatch(r) == r.entityclass # "Variable" /\ r.rank # ExactRank

add_svo_info(kg, name) ==
    IF kg.err # NoErr THEN kg
    ELSE IF name \notin DOMAIN kg.im THEN Raise(kg, "KeyError")
    ELSE IF Len(name) # 1 THEN kg
    ELSE IF kg.im[name] \notin DOMAIN kg.g THEN Raise(kg, "KeyError")
    ELSE Then(kg.im[name], LAMBDA name_index :
         Then(rank_search(name[1], kg.g[name_index].lemma_seq[1]), LAMBDA results :
              SvoRankLoop(
                SvoRankLoop(
                  SvoMatchLoop(kg, name_index, SelectSeq(results, IsExact), 1),
                  name_index, "hasSVOVar", SelectSeq(results, IsVariableMatch), 1),
                name_index, "hasSVOEntity", SelectSeq(results, IsOtherMatch), 1)))

(***************************************************************************)
(* ParsedDoc / ParsedParagraph over a page (src/parse_tools.py).           *)
(***************************************************************************)
\* ParsedParagraph.get_noun_groups(): the noun groups of each sentence.
get_noun_groups(paragraph) ==
    [sno \in DOMAIN paragraph |-> parse_noun_groups(paragraph[sno].words)]

\* ParsedDoc.find_is_nsubj(term): the number of the first paragraph holding an
\* "is" statement about term, 0 for None.
find_is_nsubj(text, term) ==
    LET hit(pno) == \E sno \in DOMAIN text[pno] : text[pno][sno].nsubj = Lower(term)
    IN  IF \E pno \in DOMAIN text : hit(pno)
        THEN CHOOSE pno \in DOMAIN text : hit(pno) /\ \A q \in 1..(pno - 1) : ~hit(q)
        ELSE 0

\* The order of str on the words of the vocabulary, and on terms.
Alphabet == <<"(", ")", "aqua", "basin", "color", "conductivity", "flow", "fluid",
              "h2o", "heat", "hydrol", "in", "is",
              "liquid", "mass", "moisture", "of", "properties", "property", "soil",
              "substance", "term", "terms", "the", "thermal", "water", "wet">>

WordRank(w) == CHOOSE i \in DOMAIN Alphabet : Alphabet[i] = w

RECURSIVE TermLess(_, _)
TermLess(a, b) ==
    IF a = <<>> THEN b # <<>>
    ELSE IF b = <<>> THEN FALSE
    ELSE IF a[1] = b[1] THEN TermLess(Tail(a), Tail(b))
    ELSE WordRank(a[1]) < WordRank(b[1])

NgKind(pos_seq) ==
    IF InSeq("ADPOSITION", pos_seq) THEN "multiple"
    ELSE IF InSeq("ADJECTIVE", pos_seq) THEN "adjectival"
    ELSE "simple"

RECURSIVE Flatten(_)
Flatten(ss) == IF ss = <<>> THEN <<>> ELSE Head(ss) \o Flatten(Tail(ss))

\* NounGroup.count_noun_groups: one occurrence per cluster and per component,
\* the kind taken from the enclosing cluster's pos_seq (the closure over attr).
ClusterOcc(e) ==
    Then(NgKind(e.attr.pos_seq), LAMBDA kind :
    Then(IF "components" \in DOMAIN e.attr THEN e.attr.components ELSE <<>>, LAMBDA comps :
         <<[noun_group |-> Lower(e.name), type |-> kind]>>
         \o [i \in DOMAIN comps |-> [noun_group |-> Lower(comps[i].name), type |-> kind]]))

\* The occurrences in one sentence.
SentenceOcc(ng) == Flatten([i \in DOMAIN ng |-> ClusterOcc(ng[i])])

DocOcc(text) ==
    Flatten([pno \in DOMAIN text |->
        Flatten([sno \in DOMAIN text[pno] |->
            SentenceOcc(parse_noun_groups(text[pno][sno].words))])])

RECURSIVE Uniq(_, _)
Uniq(occ, acc) ==
    IF occ = <<>> THEN acc
    ELSE Uniq(Tail(occ),
              IF \E i \in DOMAIN acc : acc[i].noun_group = Head(occ).noun_group
              THEN [i \in DOMAIN acc |->
                      IF acc[i].noun_group = Head(occ).noun_group
                      THEN [acc[i] EXCEPT !.count = @ + 1] ELSE acc[i]]
              ELSE Append(acc, [noun_group |-> Head(occ).noun_group,
                                type |-> Head(occ).type, count |-> 1]))

CountBefore(a, b) ==
    a.count > b.count \/ (a.count = b.count /\ TermLess(a.noun_group, b.noun_group))

\* ParsedDoc.count_noun_groups
count_noun_groups(text) == SortSeq(Uniq(DocOcc(text), <<>>), CountBefore)

EndsWith(n, term) ==
    Len(n) > Len(term) /\ SubSeq(n, Len(n) - Len(term) + 1, Len(n)) = term

\* ParsedDoc.get_term_noun_groups
get_term_noun_groups(text, term) ==
    LET term_lower == Lower(term)
        contains(r) == IsSubstring(term_lower, r.noun_group)
        flag(r) ==
            LET adj_or_simple == r.type \in {"adjectival", "simple"}
                ends == EndsWith(r.noun_group, term_lower)
            IN  [noun_group |-> r.noun_group,
                 modified |-> ends /\ adj_or_simple,
                 aspects |-> (~ends /\ adj_or_simple) \/ ~adj_or_simple]
        rows == SelectSeq(count_noun_groups(text), contains)
    IN  [i \in DOMAIN rows |-> flag(rows[i])]

(***************************************************************************)
(* Definition mining (src/knowledge_graph.py).                             *)
(***************************************************************************)
add_related(kg, name, title, name_orig) ==
    IF kg.err # NoErr THEN kg
    ELSE
    Then(IF name # title
         THEN IF name \notin DOMAIN kg.im THEN Raise(kg, "KeyError")
              ELSE ListAdd(kg, kg.im[name], "isRelatedTo", title)
         ELSE kg, LAMBDA k1 :
         IF k1.err # NoErr THEN k1
         ELSE IF name # name_orig
         THEN IF name_orig \notin DOMAIN k1.im THEN Raise(k1, "KeyError")
              ELSE Then(k1.im[name_orig], LAMBDA src :
                   Then(ListAdd(k1, src, "hasSynonym", name), LAMBDA k2 :
                        IF k2.err # NoErr THEN k2 ELSE add_index_map(k2, src, name)))
         ELSE k1)

RECURSIVE DefNodesLoop(_, _, _, _, _, _)
DefNodesLoop(kg, name_index, name_found, nodes, edge_label, j) ==
    IF j > Len(nodes) \/ kg.err # NoErr THEN kg
    ELSE DefNodesLoop(IF Lower(nodes[j].name) # name_found
                      THEN ListAdd(kg, name_index, edge_label, Lower(nodes[j].name))
                      ELSE kg,
                      name_index, name_found, nodes, edge_label, j + 1)

RECURSIVE DefLoop(_, _, _, _, _, _)
DefLoop(kg, name_index, name_found, nodes_par, i, max_i) ==
    IF i >= max_i \/ kg.err # NoErr THEN kg
    ELSE DefLoop(DefNodesLoop(kg, name_index, name_found, nodes_par[i],
                              IF i = 1 THEN "isDefinedBy" ELSE "isCloselyRelatedTo", 1),
                 name_index, name_found, nodes_par, i + 1, max_i)

add_definition(kg, name, name_found, nodes_par) ==
    IF kg.err # NoErr THEN kg
    ELSE IF name \notin DOMAIN kg.im THEN Raise(kg, "KeyError")
    ELSE DefLoop(kg, kg.im[name], name_found, nodes_par, 1, Min2(Len(nodes_par), 3))

add_dimensions(kg, name, name_found, noun_groups_index) ==
    IF kg.err # NoErr THEN kg
    ELSE IF name \notin DOMAIN kg.im THEN Raise(kg, "KeyError")
    ELSE LET isModified(r) == r.modified /\ r.noun_group # name_found
             isAspect(r) == r.aspects /\ r.noun_group # name_found
             names(rows) == [i \in DOMAIN rows |-> rows[i].noun_group]
         IN  Then(GSet(kg, kg.im[name], "modified_terms",
                       names(SelectSeq(noun_groups_index, isModified))), LAMBDA k1 :
                  IF k1.err # NoErr THEN k1
                  ELSE GSet(k1, kg.im[name], "term_aspects",
                            names(SelectSeq(noun_groups_index, isAspect))))

Paren(t) == <<"(">> \o t \o <<")">>

\* Lines 821-830: the name the definition is keyed under.
UseName(page, name, lemma) ==
    Then(Lower(page.title), LAMBDA title_lower :
    Then(Lower(page.redirecttitle), LAMBDA redirect_lower :
         IF \/ name = redirect_lower
            \/ lemma = title_lower
            \/ lemma = redirect_lower
            \/ IsSubstring(Paren(name), title_lower)
            \/ IsSubstring(Paren(lemma), title_lower)
            \/ IsSubstring(Paren(name), redirect_lower)
            \/ IsSubstring(Paren(lemma), redirect_lower)
         THEN title_lower ELSE name))

\* Lines 834-850, after add_related has left the object as k1.
MineDefinition(k1, name, use_name, text, long) ==
    IF k1.err # NoErr THEN k1
    ELSE IF use_name \notin DOMAIN k1.im THEN Raise(k1, "KeyError")
    ELSE IF k1.im[use_name] \notin DOMAIN k1.g THEN Raise(k1, "KeyError")
    ELSE IF "isDefinedBy" \in DOMAIN k1.g[k1.im[use_name]] THEN k1
    \* ParsedDoc([]): max() of no paragraph numbers
    ELSE IF text = <<>> THEN Raise(k1, "ValueError")
    ELSE Then(find_is_nsubj(text, use_name), LAMBDA pno :
              IF pno = 0 THEN k1
              ELSE Then(add_definition(k1, name, use_name, get_noun_groups(text[pno])),
                        LAMBDA k2 :
                        IF long
                        THEN add_dimensions(k2, name, use_name,
                                            get_term_noun_groups(text, use_name))
                        ELSE k2))

add_wikipedia_def(kg, name, long) ==
    IF kg.err # NoErr THEN kg
    ELSE IF name \notin DOMAIN kg.g THEN Raise(kg, "KeyError")
    ELSE
    Then(get_wikipedia_text(name), LAMBDA page :
         IF page.disambig THEN kg
         ELSE Then(UseName(page, name, Lower(kg.g[name].lemma_seq)), LAMBDA use_name :
                   MineDefinition(add_related(kg, use_name, Lower(page.title), name),
                                  name, use_name, page.text, long)))

RECURSIVE WwnDefNgLoop(_, _, _, _, _)
WwnDefNgLoop(kg, name, name_index, ngs, j) ==
    IF j > Len(ngs) \/ kg.err # NoErr THEN kg
    ELSE WwnDefNgLoop(IF Lower(ngs[j].name) # name
                      THEN ListAdd(kg, name_index, "isWWNDefinedBy", Lower(ngs[j].name))
                      ELSE kg,
                      name, name_index, ngs, j + 1)

RECURSIVE WwnDefLoop(_, _, _, _, _)
WwnDefLoop(kg, name, name_index, definitions, i) ==
    IF i > Len(definitions) \/ kg.err # NoErr THEN kg
    ELSE WwnDefLoop(WwnDefNgLoop(kg, name, name_index,
                                 parse_noun_groups(definitions[i]), 1),
                    name, name_index, definitions, i + 1)

add_wwn_def(kg, name) ==
    IF kg.err # NoErr THEN kg
    ELSE IF name \notin DOMAIN kg.im THEN Raise(kg, "KeyError")
    ELSE IF kg.im[name] \notin DOMAIN kg.g THEN Raise(kg, "KeyError")
    ELSE IF "hasWWNDefinition" \in DOMAIN kg.g[kg.im[name]]
    THEN WwnDefLoop(kg, name, kg.im[name], kg.g[kg.im[name]].hasWWNDefinition, 1)
    ELSE kg

expand_node(kg, word) ==
    IF word \notin category_names
    THEN add_wwn_def(add_wikipedia_def(kg, word, TRUE), word)
    ELSE kg

(***************************************************************************)
(* Node creation and decomposition (src/knowledge_graph.py).               *)
(***************************************************************************)
RECURSIVE add_term_node(_, _, _)
RECURSIVE ComponentsLoop(_, _, _, _)
RECURSIVE TypeAttrLoop(_, _, _, _, _, _, _)
RECURSIVE NounCompLoop(_, _, _, _, _)
RECURSIVE NounCompLoop_whole(_, _, _, _, _)

\* The loop of lines 586-590.
ComponentsLoop(kg, word, comps, i) ==
    IF i > Len(comps) \/ kg.err # NoErr THEN kg
    ELSE IF ~NgHas(comps, Lower(comps[i].name)) THEN Raise(kg, "KeyError")
    ELSE ComponentsLoop(
           add_term_node(NoteTerm(kg, word, Lower(comps[i].name)), Lower(comps[i].name),
                         ("component_of" :> word) @@ NgGet(comps, Lower(comps[i].name))),
           word, comps, i + 1)

add_components(kg, word, attr) ==
    IF kg.err # NoErr THEN kg
    ELSE IF word \notin DOMAIN kg.im THEN Raise(kg, "KeyError")
    ELSE
    Then(kg.im[word], LAMBDA word_index :
    Then(IF "components" \in DOMAIN attr
         THEN IF word \notin DOMAIN kg.g THEN Raise(kg, "KeyError")
              ELSE Then([i \in DOMAIN attr.components |-> attr.components[i].name],
                        LAMBDA components_list :
                        ComponentsLoop(
                          IF "hasComponents" \notin DOMAIN kg.g[word]
                          THEN GSet(kg, word_index, "hasComponents", components_list)
                          ELSE IF word_index \notin DOMAIN kg.g
                                  \/ "hasComponents" \notin DOMAIN kg.g[word_index]
                          THEN Raise(kg, "KeyError")
                          ELSE GSet(kg, word_index, "hasComponents",
                                    kg.g[word_index].hasComponents \o components_list),
                          word, attr.components, 1))
         ELSE kg, LAMBDA k1 :
         IF k1.err # NoErr THEN k1
         ELSE IF "component_of" \in DOMAIN attr
         THEN IF word_index \notin DOMAIN k1.g THEN Raise(k1, "KeyError")
              ELSE IF "isComponentOf" \notin DOMAIN k1.g[word_index]
              THEN GSet(k1, word_index, "isComponentOf", StrVal(Lower(attr.component_of)))
              \* line 596 reads the undefined name `graph`
              ELSE Raise(k1, "NameError")
         ELSE k1))

\* The loops of add_type_attr: fwd/bwd are isTypeOf/hasType or
\* hasAttribute/isAttributeOf.
TypeAttrLoop(kg, word, word_index, entries, i, fwd, bwd) ==
    IF i > Len(entries) \/ kg.err # NoErr THEN kg
    ELSE TypeAttrLoop(
           ListAdd(ListAdd(add_term_node(NoteTerm(kg, word, entries[i].name),
                                         entries[i].name, entries[i].attr),
                           word_index, fwd, entries[i].name),
                   entries[i].name, bwd, word),
           word, word_index, entries, i + 1, fwd, bwd)

add_type_attr(kg, word, attr) ==
    IF kg.err # NoErr THEN kg
    ELSE IF word \notin DOMAIN kg.im THEN Raise(kg, "KeyError")
    ELSE TypeAttrLoop(
           TypeAttrLoop(kg, word, kg.im[word],
                        IF "has_type" \in DOMAIN attr THEN attr.has_type ELSE <<>>,
                        1, "isTypeOf", "hasType"),
           word, kg.im[word],
           IF "has_attribute" \in DOMAIN attr THEN attr.has_attribute ELSE <<>>,
           1, "hasAttribute", "isAttributeOf")

\* Lines 663-667: the isComponentOf side, the object being k2.
NounCompOf(k2, name, comp_name) ==
    IF k2.err # NoErr THEN k2
    ELSE IF comp_name \notin DOMAIN k2.im THEN Raise(k2, "KeyError")
    ELSE IF k2.im[comp_name] \notin DOMAIN k2.g THEN Raise(k2, "KeyError")
    ELSE Then(k2.im[comp_name], LAMBDA comp_index :
         IF "isComponentOf" \notin DOMAIN k2.g[comp_index]
         THEN GSet(k2, comp_index, "isComponentOf", ListVal(<<name>>))
         ELSE Then(k2.g[comp_index].isComponentOf, LAMBDA c :
              IF c.isStr
              \* `name in str` is the substring test; str has no append
              THEN IF IsSubstring(name, c.items[1]) THEN k2
                   ELSE Raise(k2, "AttributeError")
              ELSE IF InSeq(name, c.items) THEN k2
              ELSE GSet(k2, comp_index, "isComponentOf", ListVal(Append(c.items, name)))))

\* The loop of add_noun_components with line 657 passing the whole name
\* instead of comp_name.
NounCompLoop_whole(kg, name, name_index, lemma_seq, i) ==
    IF i > Len(name) \/ kg.err # NoErr THEN kg
    ELSE NounCompLoop_whole(
           NounCompOf(
             ListAdd(add_term_node(NoteTerm(kg, name, name), name,
                                   [pos_seq |-> <<"NOUN">>, lemma_seq |-> <<lemma_seq[i]>>,
                                    type |-> "noun"]),
                     name_index, "hasComponents", <<name[i]>>),
             name, <<name[i]>>),
           name, name_index, lemma_seq, i + 1)

\* The loop of lines 654-668.
NounCompLoop(kg, name, name_index, lemma_seq, i) ==
    IF i > Len(name) \/ kg.err # NoErr THEN kg
    ELSE NounCompLoop(
           NounCompOf(
             ListAdd(add_term_node(NoteTerm(kg, name, <<name[i]>>), <<name[i]>>,
                                   [pos_seq |-> <<"NOUN">>, lemma_seq |-> <<lemma_seq[i]>>,
                                    type |-> "noun"]),
                     name_index, "hasComponents", <<name[i]>>),
             name, <<name[i]>>),
           name, name_index, lemma_seq, i + 1)

add_noun_components(kg, name, attr) ==
    IF kg.err # NoErr THEN kg
    ELSE IF name \notin DOMAIN kg.im THEN Raise(kg, "KeyError")
    ELSE IF attr.type = "noungrp"
    THEN NounCompLoop(kg, name, kg.im[name], attr.lemma_seq, 1)
    ELSE kg

\* self.graph[name_lower] = {pos_seq, lemma_seq, type}
NewNode(kg, name_lower, attr) ==
    [kg EXCEPT !.g = DictSet(@, name_lower,
                             [pos_seq |-> attr.pos_seq, lemma_seq |-> attr.lemma_seq,
                              type |-> attr.type]),
               !.ord = IF name_lower \in DOMAIN kg.g THEN @ ELSE Append(@, name_lower)]

\* add_term_node without the test of line 549: the record is written whether
\* or not the name is known.
add_term_node_overwriting(kg, name, attr) ==
    IF kg.err # NoErr THEN kg
    ELSE
    Then(Lower(name), LAMBDA name_lower :
    Then(add_index_map(NewNode(kg, name_lower, attr), name_lower, name_lower), LAMBDA k1 :
         IF name_lower \notin category_names /\ Lower(attr.lemma_seq) \notin category_names
         THEN expand_node(
                add_svo_info(
                  add_wwn_info(
                    add_noun_components(
                      add_type_attr(
                        add_components(k1, name_lower, attr),
                        name_lower, attr),
                      name_lower, attr),
                    name_lower),
                  name_lower),
                name_lower)
         ELSE k1))

\* add_term_node without the test of lines 556-557: a reserved term is
\* expanded like any other.
add_term_node_expanding(kg, name, attr) ==
    IF kg.err # NoErr THEN kg
    ELSE
    Then(Lower(name), LAMBDA name_lower :
    Then(IF name_lower \notin DOMAIN kg.im
         THEN add_index_map(NewNode(kg, name_lower, attr), name_lower, name_lower)
         ELSE kg, LAMBDA k1 :
         expand_node(
           add_svo_info(
             add_wwn_info(
               add_noun_components(
                 add_type_attr(
                   add_components(k1, name_lower, attr),
                   name_lower, attr),
                 name_lower, attr),
               name_lower),
             name_lower),
           name_lower)))

add_term_node(kg, name, attr) ==
    IF kg.err # NoErr THEN kg
    ELSE
    Then(Lower(name), LAMBDA name_lower :
    Then(IF name_lower \notin DOMAIN kg.im
         THEN add_index_map(NewNode(kg, name_lower, attr), name_lower, name_lower)
         ELSE kg, LAMBDA k1 :
         IF name_lower \notin category_names /\ Lower(attr.lemma_seq) \notin category_names
         THEN expand_node(
                add_svo_info(
                  add_wwn_info(
                    add_noun_components(
                      add_type_attr(
                        add_components(k1, name_lower, attr),
                        name_lower, attr),
                      name_lower, attr),
                    name_lower),
                  name_lower),
                name_lower)
         ELSE k1))

(***************************************************************************)
(* Concept expansion.                                                      *)
(***************************************************************************)
\* get_children: the children, or the exception of line 492.
get_children(kg, node_name) ==
    IF node_name \in DOMAIN kg.im
    THEN IF kg.im[node_name] \notin DOMAIN kg.g
         THEN [err |-> "KeyError", children |-> <<>>]
         ELSE Then(kg.g[kg.im[node_name]], LAMBDA node :
                   [err |-> NoErr,
                    children |->
                      (IF "isDefinedBy" \in DOMAIN node THEN node.isDefinedBy ELSE <<>>)
                      \o (IF "isWWNDefinedBy" \in DOMAIN node
                          THEN node.isWWNDefinedBy ELSE <<>>)])
    ELSE [err |-> NoErr, children |-> <<>>]

RECURSIVE create_concept_levels(_, _, _)
RECURSIVE ChildrenLoop(_, _, _, _, _)
RECURSIVE LevelLoop(_, _, _, _)
RECURSIVE ExpandChildren(_, _, _)

\* The loop of lines 523-524 over the children of noung.
ChildrenLoop(kg, noung, new_nodes, depth, i) ==
    IF i > Len(new_nodes) \/ kg.err # NoErr THEN kg
    ELSE ChildrenLoop(
           create_concept_levels(NoteLevel(kg, noung, depth, new_nodes[i], depth - 1),
                                 new_nodes[i], depth - 1),
           noung, new_nodes, depth, i + 1)

\* Lines 522-524, the object being k1 after add_term_node.
ExpandChildren(k1, noung, depth) ==
    IF k1.err # NoErr THEN k1
    ELSE Then(get_children(k1, noung), LAMBDA c :
              IF c.err # NoErr THEN Raise(k1, c.err)
              ELSE ChildrenLoop(k1, noung, c.children, depth, 1))

\* The loop of lines 518-524 over the noun groups of the variable.
LevelLoop(kg, ng, depth, i) ==
    IF i > Len(ng) \/ kg.err # NoErr THEN kg
    ELSE LevelLoop(
           ExpandChildren(add_term_node(kg, Lower(ng[i].name), ng[i].attr),
                          Lower(ng[i].name), depth),
           ng, depth, i + 1)

create_concept_levels(kg, variable, depth) ==
    IF kg.err # NoErr THEN kg
    ELSE IF depth > 0 /\ variable # <<>>
    THEN Then(parse_noun_groups(variable), LAMBDA ng : LevelLoop(kg, ng, depth, 1))
    ELSE kg

\* add_concept without lines 471-473: the depth is passed on as given.
add_concept_unclamped(kg, var, depth) == create_concept_levels(kg, var, depth)

add_concept(kg, var, depth) ==
    create_concept_levels(kg, var, IF depth > 3 THEN 3 ELSE depth)

(***************************************************************************)
(* The synonym merge (update_synonyms, lines 353-422).  new_graph holds    *)
(* the very node dicts of self.graph, so what the third loop writes stays  *)
(* in self.graph also when an exception keeps line 422 from running.       *)
(***************************************************************************)
transfer_links_list == <<"isDefinedBy", "isWWNDefinedBy", "hasWWNCategory", "hasWWNDefinition">>
transfer_links_dict == <<"hasSVOVar", "hasSVOEntity", "hasSVOMatch", "hasWMIndicator">>

RECURSIVE RemLoop(_, _, _)
\* The first loop (377-384): st = [kg, rem], i the position in the key order.
RemLoop(st, order, i) ==
    IF i > Len(order) \/ st.kg.err # NoErr THEN st
    ELSE
    LET name == order[i]
        attr == st.kg.g[name]
    IN  IF "hasSynonym" \notin DOMAIN attr THEN RemLoop(st, order, i + 1)
        ELSE IF attr.hasSynonym = <<>>
        THEN [st EXCEPT !.kg = Raise(st.kg, "IndexError")]
        ELSE LET synonym == Lower(attr.hasSynonym[1])
             IN  IF synonym \in DOMAIN st.kg.g
                 THEN RemLoop([kg |-> [st.kg EXCEPT !.im = DictSet(@, name, synonym)],
                               rem |-> Append(st.rem, name)], order, i + 1)
                 ELSE IF name \notin DOMAIN st.kg.im
                 THEN RemLoop([st EXCEPT !.kg.im = DictSet(@, name, name)], order, i + 1)
                 ELSE RemLoop(st, order, i + 1)

\* new_graph[new_index] exists
InNewGraph(kg, rem, new_index) == new_index \in DOMAIN kg.g /\ ~InSeq(new_index, rem)

RECURSIVE ListTransfer(_, _, _, _, _, _)
\* Lines 396-401 for one list field key_t of the removed node.
ListTransfer(kg, rem, new_index, key_t, val_t, i) ==
    IF i > Len(val_t) \/ kg.err # NoErr THEN kg
    ELSE IF ~InNewGraph(kg, rem, new_index) THEN Raise(kg, "KeyError")
    ELSE LET v == val_t[i]
             node == kg.g[new_index]
         IN  ListTransfer(
                IF key_t \in DOMAIN node /\ ~InSeq(v, node[key_t])
                THEN GSet(kg, new_index, key_t, Append(node[key_t], v))
                ELSE GSet(kg, new_index, key_t, <<v>>),
                rem, new_index, key_t, val_t, i + 1)

\* The keys of a dict field in some order: the writes for distinct keys commute.
RECURSIVE KeySeq(_)
KeySeq(S) == IF S = {} THEN <<>>
             ELSE LET k == CHOOSE k \in S : TRUE IN <<k>> \o KeySeq(S \ {k})

RECURSIVE DictTransfer(_, _, _, _, _, _, _)
\* Lines 403-421 for one dict field key_t of the removed node.
DictTransfer(kg, rem, new_index, key_t, val_t, keys, i) ==
    IF i > Len(keys) \/ kg.err # NoErr THEN kg
    ELSE IF ~InNewGraph(kg, rem, new_index) THEN Raise(kg, "KeyError")
    ELSE
    LET k == keys[i]
        v == val_t[k]
        node == kg.g[new_index]
        k1 == IF key_t # "hasSVOMatch"
              THEN IF key_t \in DOMAIN node /\ k \in DOMAIN node[key_t]
                   THEN GSet(kg, new_index, key_t,
                             DictSet(node[key_t], k, RatMax(node[key_t][k], v)))
                   ELSE IF key_t \in DOMAIN node
                   THEN GSet(kg, new_index, key_t, DictSet(node[key_t], k, v))
                   ELSE GSet(kg, new_index, key_t, k :> v)
              \* hasSVOMatch: v is the list of the removed node, appended whole
              ELSE IF key_t \in DOMAIN node /\ k \in DOMAIN node[key_t]
                      /\ ~InSeq(ListItem(v), node[key_t][k])
                   THEN GSet(kg, new_index, key_t,
                             DictSet(node[key_t], k, Append(node[key_t][k], ListItem(v))))
                   ELSE IF key_t \in DOMAIN node /\ k \notin DOMAIN node[key_t]
                   THEN GSet(kg, new_index, key_t,
                             DictSet(node[key_t], k, <<ListItem(v)>>))
                   ELSE kg
    IN  DictTransfer(k1, rem, new_index, key_t, val_t, keys, i + 1)

RECURSIVE FieldLoop(_, _, _, _, _, _)
\* The loop of line 394 over the fields of the removed node val.
FieldLoop(kg, rem, new_index, val, fields, i) ==
    IF i > Len(fields) \/ kg.err # NoErr THEN kg
    ELSE LET key_t == fields[i]
         IN  FieldLoop(
                IF key_t \notin DOMAIN val THEN kg
                ELSE IF InSeq(key_t, transfer_links_list)
                THEN ListTransfer(kg, rem, new_index, key_t, val[key_t], 1)
                ELSE DictTransfer(kg, rem, new_index, key_t, val[key_t],
                                  KeySeq(DOMAIN val[key_t]), 1),
                rem, new_index, val, fields, i + 1)

RECURSIVE MergeLoop(_, _, _, _)
\* The third loop (391-421).
MergeLoop(kg, rem, order, i) ==
    IF i > Len(order) \/ kg.err # NoErr THEN kg
    ELSE LET key == order[i]
         IN  IF key \notin DOMAIN kg.im THEN Raise(kg, "KeyError")
             ELSE MergeLoop(
                    IF InSeq(key, rem)
                    THEN FieldLoop(kg, rem, kg.im[key], kg.g[key],
                                   transfer_links_list \o transfer_links_dict, 1)
                    ELSE kg,
                    rem, order, i + 1)

\* d restricted to the keys outside rem
Without(d, rem) == [k \in {x \in DOMAIN d : ~InSeq(x, rem)} |-> d[k]]

update_synonyms(kg) ==
    IF kg.err # NoErr THEN kg
    ELSE
    Then(RemLoop([kg |-> kg, rem |-> <<>>], kg.ord, 1), LAMBDA st :
    Then(MergeLoop(st.kg, st.rem, kg.ord, 1), LAMBDA k3 :
         IF k3.err # NoErr THEN k3
         ELSE LET NotRemoved(key) == ~InSeq(key, st.rem)
              IN  [k3 EXCEPT !.g = Without(k3.g, st.rem),
                             !.ord = SelectSeq(kg.ord, NotRemoved)]))

(***************************************************************************)
(* Graph inference (lines 956-1116).                                       *)
(***************************************************************************)
\* self.graph[term]['detSVOCategory'] = c
SetCategory(kg, term, c) == GSet(kg, term, "detSVOCategory", c)

\* Lines 980-990: the category of a noun with the classes given.
NounCategory(classes) ==
    IF InSeq("Phenomenon", classes) \/ InSeq("Matter", classes)
       \/ InSeq("Role", classes) \/ InSeq("Form", classes) THEN "Phenomenon"
    ELSE IF InSeq("Property", classes) THEN "Property"
    ELSE IF InSeq("Attribute", classes) THEN "Attribute"
    ELSE IF InSeq("Process", classes) THEN "Process"
    ELSE classes[1]

RECURSIVE CategoryLoop(_, _, _)
\* The loop of lines 970-994 over the terms of the graph.
CategoryLoop(kg, terms, i) ==
    IF i > Len(terms) \/ kg.err # NoErr THEN kg
    ELSE CategoryLoop(
           Then(kg.g[terms[i]], LAMBDA attr :
                IF attr.type = "adj" THEN SetCategory(kg, terms[i], "Attribute")
                ELSE IF attr.type = "noun"
                        /\ ("hasSVOMatch" \in DOMAIN attr \/ "hasWWNCategory" \in DOMAIN attr)
                THEN Then(IF "hasSVOMatch" \in DOMAIN attr
                          THEN KeySeq(DOMAIN attr.hasSVOMatch)
                          ELSE attr.hasWWNCategory, LAMBDA classes :
                          IF classes = <<>> THEN Raise(kg, "IndexError")
                          ELSE SetCategory(kg, terms[i], NounCategory(classes)))
                ELSE SetCategory(kg, terms[i], "Phenomenon")),
           terms, i + 1)

\* categories[cat] += 1 on the dict categories, a list of [cat, n] in
\* insertion order.
Tally(categories, cat) ==
    IF \E j \in DOMAIN categories : categories[j].cat = cat
    THEN [j \in DOMAIN categories |->
            IF categories[j].cat = cat
            THEN [categories[j] EXCEPT !.n = @ + 1] ELSE categories[j]]
    ELSE Append(categories, [cat |-> cat, n |-> 1])

RECURSIVE TallyLoop(_, _, _, _)
\* Lines 1001-1009: the tally over the single-word components.
TallyLoop(kg, components, i, categories) ==
    IF i > Len(components) THEN [err |-> NoErr, categories |-> categories]
    ELSE IF components[i] \in DOMAIN kg.im /\ Len(kg.im[components[i]]) = 1
    THEN IF kg.im[components[i]] \notin DOMAIN kg.g
            \/ "detSVOCategory" \notin DOMAIN kg.g[kg.im[components[i]]]
         THEN [err |-> "KeyError", categories |-> categories]
         ELSE TallyLoop(kg, components, i + 1,
                        Tally(categories, kg.g[kg.im[components[i]]].detSVOCategory))
    ELSE TallyLoop(kg, components, i + 1, categories)

RECURSIVE WinnersLoop(_, _, _, _)
\* Lines 1010-1017: the categories with the highest count.
WinnersLoop(categories, i, category, count) ==
    IF i > Len(categories) THEN category
    ELSE IF categories[i].n > count
    THEN WinnersLoop(categories, i + 1, <<categories[i].cat>>, categories[i].n)
    ELSE IF categories[i].n = count
    THEN WinnersLoop(categories, i + 1, Append(category, categories[i].cat), count)
    ELSE WinnersLoop(categories, i + 1, category, count)

\* Lines 1018-1029 with the test for Attribute put before the others.
GroupCategory_attribute_first(category) ==
    IF InSeq("Attribute", category) THEN "Attribute"
    ELSE IF InSeq("Phenomenon", category) /\ InSeq("Property", category) THEN "Variable"
    ELSE IF InSeq("Phenomenon", category) \/ category = <<>> THEN "Phenomenon"
    ELSE IF InSeq("Property", category) THEN "Property"
    ELSE IF InSeq("Process", category) THEN "Process"
    ELSE category[1]

\* Lines 1018-1029: the category of a noun group from the winners.
GroupCategory(category) ==
    IF InSeq("Phenomenon", category) /\ InSeq("Property", category) THEN "Variable"
    ELSE IF InSeq("Phenomenon", category) \/ category = <<>> THEN "Phenomenon"
    ELSE IF InSeq("Property", category) THEN "Property"
    ELSE IF InSeq("Attribute", category) THEN "Attribute"
    ELSE IF InSeq("Process", category) THEN "Process"
    ELSE category[1]

RECURSIVE NounGroupLoop(_, _, _)
\* The loop of lines 997-1029.
NounGroupLoop(kg, terms, i) ==
    IF i > Len(terms) \/ kg.err # NoErr THEN kg
    ELSE NounGroupLoop(
           IF kg.g[terms[i]].type # "noungrp" THEN kg
           ELSE Then(SetCategory(kg, terms[i], "Phenomenon"), LAMBDA k1 :
                IF "hasComponents" \notin DOMAIN k1.g[terms[i]] THEN Raise(k1, "KeyError")
                ELSE Then(TallyLoop(k1, k1.g[terms[i]].hasComponents, 1, <<>>), LAMBDA t :
                     IF t.err # NoErr THEN Raise(k1, t.err)
                     ELSE SetCategory(k1, terms[i],
                                      GroupCategory(WinnersLoop(t.categories, 1, <<>>, 0))))),
           terms, i + 1)

\* `w in category` for a category that is a class name or 'Specialized' + one.
HasWord(category, w) == category \in {w, "Specialized" \o w}

RECURSIVE ModNounLoop(_, _, _)
\* The loop of lines 1031-1043.
ModNounLoop(kg, terms, i) ==
    IF i > Len(terms) \/ kg.err # NoErr THEN kg
    ELSE ModNounLoop(
           IF kg.g[terms[i]].type # "modnoun" THEN kg
           ELSE Then(SetCategory(kg, terms[i], "Phenomenon"), LAMBDA k1 :
                IF "isTypeOf" \notin DOMAIN k1.g[terms[i]] THEN Raise(k1, "KeyError")
                ELSE IF k1.g[terms[i]].isTypeOf[1] \notin DOMAIN k1.im THEN k1
                ELSE Then(k1.im[k1.g[terms[i]].isTypeOf[1]], LAMBDA typ :
                     IF typ \notin DOMAIN k1.g \/ "detSVOCategory" \notin DOMAIN k1.g[typ]
                     THEN Raise(k1, "KeyError")
                     ELSE Then(k1.g[typ].detSVOCategory, LAMBDA category :
                          IF HasWord(category, "Attribute")
                          THEN SetCategory(k1, terms[i], "Attribute")
                          ELSE IF HasWord(category, "Variable")
                          THEN SetCategory(k1, terms[i], "Variable")
                          ELSE SetCategory(k1, terms[i], "Specialized" \o category)))),
           terms, i + 1)

\* Lines 1059-1079: the category of an 'adp' term from the set of categories
\* of its components, "" where no branch assigns one.
AdpCategory(cats) ==
    IF ("Phenomenon" \in cats \/ "SpecializedPhenomenon" \in cats)
       /\ ("Property" \in cats \/ "SpecializedProperty" \in cats) THEN "Variable"
    ELSE IF "SpecializedPhenomenon" \in cats THEN "SpecializedPhenomenon"
    ELSE IF "Phenomenon" \in cats THEN "Phenomenon"
    ELSE IF "SpecializedProperty" \in cats THEN "SpecializedProperty"
    ELSE IF "Property" \in cats THEN "Property"
    ELSE IF "SpecializedAttribute" \in cats THEN "SpecializedAttribute"
    ELSE IF "Attribute" \in cats THEN "Attribute"
    ELSE IF "SpecializedProcess" \in cats THEN "SpecializedProcess"
    ELSE IF "Process" \in cats THEN "Process"
    ELSE ""

RECURSIVE AdpLoop(_, _, _)
\* The loop of lines 1045-1079: terms of type 'adp' with ' of ' inside.
AdpLoop(kg, terms, i) ==
    IF i > Len(terms) \/ kg.err # NoErr THEN kg
    ELSE AdpLoop(
           IF ~(kg.g[terms[i]].type = "adp"
                /\ \E j \in 2..(Len(terms[i]) - 1) : terms[i][j] = "of") THEN kg
           ELSE Then(SetCategory(kg, terms[i], "Phenomenon"), LAMBDA k1 :
                IF "hasComponents" \notin DOMAIN k1.g[terms[i]] THEN Raise(k1, "KeyError")
                ELSE Then(k1.g[terms[i]].hasComponents, LAMBDA components :
                     IF \E j \in DOMAIN components :
                           \/ components[j] \notin DOMAIN k1.im
                           \/ k1.im[components[j]] \notin DOMAIN k1.g
                           \/ "detSVOCategory" \notin DOMAIN k1.g[k1.im[components[j]]]
                     THEN Raise(k1, "KeyError")
                     ELSE Then(AdpCategory({k1.g[k1.im[components[j]]].detSVOCategory :
                                              j \in DOMAIN components}), LAMBDA c :
                          IF c = "" THEN k1 ELSE SetCategory(k1, terms[i], c)))),
           terms, i + 1)

graph_define_svo_category(kg) ==
    IF kg.err # NoErr THEN kg
    ELSE AdpLoop(ModNounLoop(NounGroupLoop(CategoryLoop(kg, kg.ord, 1), kg.ord, 1),
                             kg.ord, 1),
                 kg.ord, 1)

\* variable_links and matched_link
first_order == <<"hasComponents", "hasAttribute", "isTypeOf">>
second_order == <<"isDefinedBy", "isWWNDefinedBy">>
matched_link == <<"hasSVOVar", "hasSVOEntity", "hasWMIndicator">>

\* The factor 0.8 in the place of 0.83.
Factor_eight_tenths(link) ==
    IF InSeq(link, second_order) THEN Rat(8, 10) ELSE Rat(1, 1)

\* Lines 1091-1093: 1 for a first-order link, 0.83 for a second-order one.
Factor(link) ==
    IF InSeq(link, second_order) THEN Rat(83, 100) ELSE Rat(1, 1)

\* The threshold 0.05 of line 1111.
Threshold == Rat(5, 100)

\* The trace of one pass of lines 1098-1116.
NoteLink(kg, rec) ==
    IF kg.err # NoErr THEN kg ELSE [kg EXCEPT !.inf = @ \cup {rec}]

RECURSIVE EntityLoop(_, _, _, _, _, _)
\* Lines 1106-1109: new_val[key] += factor * val / num_linked_terms.
EntityLoop(new_val, entity, keys, i, factor, num_linked_terms) ==
    IF i > Len(keys) THEN new_val
    ELSE EntityLoop(
           DictSet(new_val, keys[i],
                   RatAdd(IF keys[i] \in DOMAIN new_val THEN new_val[keys[i]] ELSE Rat(0, 1),
                          RatScale(entity[keys[i]], factor, num_linked_terms))),
           entity, keys, i + 1, factor, num_linked_terms)

RECURSIVE LinkedLoop(_, _, _, _, _, _)
\* Lines 1102-1109: new_val over the linked terms, or the KeyError of line 1104.
LinkedLoop(kg, linked_terms, i, typ_link, factor, new_val) ==
    IF i > Len(linked_terms) THEN [err |-> NoErr, new_val |-> new_val]
    ELSE IF linked_terms[i] \notin DOMAIN kg.im
    THEN LinkedLoop(kg, linked_terms, i + 1, typ_link, factor, new_val)
    ELSE IF kg.im[linked_terms[i]] \notin DOMAIN kg.g
    THEN [err |-> "KeyError", new_val |-> new_val]
    ELSE IF typ_link \notin DOMAIN kg.g[kg.im[linked_terms[i]]]
    THEN LinkedLoop(kg, linked_terms, i + 1, typ_link, factor, new_val)
    ELSE Then(kg.g[kg.im[linked_terms[i]]][typ_link], LAMBDA entity :
              LinkedLoop(kg, linked_terms, i + 1, typ_link, factor,
                         EntityLoop(new_val, entity, KeySeq(DOMAIN entity), 1,
                                    factor, Len(linked_terms))))

RECURSIVE WriteLoop(_, _, _, _, _, _)
\* Lines 1110-1116.
WriteLoop(kg, term, typ_link, new_val, keys, i) ==
    IF i > Len(keys) THEN kg
    ELSE WriteLoop(
           IF RatLess(Threshold, new_val[keys[i]])
           THEN Then(kg.g[term][typ_link], LAMBDA cur :
                     GSet(kg, term, typ_link,
                          DictSet(cur, keys[i],
                                  IF keys[i] \in DOMAIN cur
                                  THEN RatMax(new_val[keys[i]], cur[keys[i]])
                                  ELSE new_val[keys[i]])))
           ELSE kg,
           term, typ_link, new_val, keys, i + 1)

\* The scores the linked terms hold for typ_link, <<>> for a term skipped at
\* line 1103.
LinkedScores(kg, linked_terms, typ_link) ==
    [i \in DOMAIN linked_terms |->
        IF linked_terms[i] \in DOMAIN kg.im
           /\ kg.im[linked_terms[i]] \in DOMAIN kg.g
           /\ typ_link \in DOMAIN kg.g[kg.im[linked_terms[i]]]
        THEN kg.g[kg.im[linked_terms[i]]][typ_link]
        ELSE <<>>]

RECURSIVE TypLinkLoop(_, _, _, _, _)
\* The loop of lines 1098-1116 for one link of one term; kg0 is the object
\* as it was when the sweep for this link began (for the trace only).
TypLinkLoop(kg, kg0, link, term, j) ==
    IF j > Len(matched_link) \/ kg.err # NoErr THEN kg
    ELSE TypLinkLoop(
           Then(matched_link[j], LAMBDA typ_link :
           Then(IF typ_link \notin DOMAIN kg.g[term]
                THEN GSet(kg, term, typ_link, <<>>) ELSE kg, LAMBDA k1 :
           Then(LinkedLoop(k1, k1.g[term][link], 1, typ_link, Factor(link), <<>>), LAMBDA r :
                IF r.err # NoErr THEN Raise(k1, r.err)
                ELSE Then(WriteLoop(k1, term, typ_link, r.new_val,
                                    KeySeq(DOMAIN r.new_val), 1), LAMBDA k2 :
                          NoteLink(k2, [term |-> term, link |-> link, typ_link |-> typ_link,
                                        scores |-> LinkedScores(k1, k1.g[term][link], typ_link),
                                        held |-> LinkedScores(kg0, k1.g[term][link], typ_link),
                                        new_val |-> r.new_val,
                                        before |-> k1.g[term][typ_link],
                                        after |-> k2.g[term][typ_link]]))))),
           kg0, link, term, j + 1)

RECURSIVE TermLinkLoop(_, _, _, _, _)
\* The loop of lines 1094-1116 over the terms.
TermLinkLoop(kg, kg0, link, terms, i) ==
    IF i > Len(terms) \/ kg.err # NoErr THEN kg
    ELSE TermLinkLoop(IF link \in DOMAIN kg.g[terms[i]]
                      THEN TypLinkLoop(kg, kg0, link, terms[i], 1) ELSE kg,
                      kg0, link, terms, i + 1)

RECURSIVE AllLinksLoop(_, _, _, _)
\* The loop of lines 1090-1116 over all_links.
AllLinksLoop(kg, all_links, terms, i) ==
    IF i > Len(all_links) \/ kg.err # NoErr THEN kg
    ELSE AllLinksLoop(TermLinkLoop(kg, kg, all_links[i], terms, 1), all_links, terms, i + 1)

\* Lines 1085-1116 with the terms visited in the order given.
add_var_entity_links_in(kg, terms) ==
    IF kg.err # NoErr THEN kg
    ELSE AllLinksLoop(kg, first_order \o second_order, terms, 1)

graph_add_var_entity_links(kg) == add_var_entity_links_in(kg, kg.ord)

graph_inference(kg) == graph_add_var_entity_links(graph_define_svo_category(kg))

(***************************************************************************)
(* Construction (lines 146-183, 206-247, 335-351).                         *)
(***************************************************************************)
EmptyKG == [g |-> <<>>, ord |-> <<>>, im |-> <<>>, svo |-> <<>>, err |-> NoErr,
            sub |-> {}, lev |-> {}, inf |-> {}]

\* A saved graph in which two nodes name each other as synonym.
MutualGraph ==
    [ord |-> << <<"liquid">>, <<"fluid">> >>,
     g |-> (<<"liquid">> :> [pos_seq |-> <<"NOUN">>, lemma_seq |-> <<"liquid">>,
                             type |-> "noun", hasSynonym |-> << <<"fluid">> >>,
                             isDefinedBy |-> << <<"substance">> >>])
           @@ (<<"fluid">> :> [pos_seq |-> <<"NOUN">>, lemma_seq |-> <<"fluid">>,
                               type |-> "noun", hasSynonym |-> << <<"liquid">> >>,
                               hasWWNCategory |-> <<"Matter">>])]

\* The graph files: no file given, a file that cannot be read, a saved graph
\* with mutual synonyms, and the graph written by write_graph after
\* add_concept('water aqua', 1) on a new object (aqua names water as synonym),
\* and the one written after add_concept('water aqua hydrol', 1) (hydrol names
\* aqua as synonym and has no field that a merge transfers).
\* water.json is the graph written after add_concept('water', 1), in which no
\* node has been merged into another.
GraphFiles == {"None", "missing.json", "mutual.json", "saved.json", "chain.json",
               "water.json"}

SavedGraph == add_concept(EmptyKG, <<"water", "aqua">>, 1)

ChainGraph == add_concept(EmptyKG, <<"water", "aqua", "hydrol">>, 1)

WaterGraph == add_concept(EmptyKG, <<"water">>, 1)

\* str() of an entity hash, as json.dump writes a dict key and as
\* write_svo_index_map formats it ('hash,{}'): the text of the number.
Str(h) == <<"str">> \o h

\* A dict with every key k replaced by f(k).
ReKey(d, f(_)) ==
    [k2 \in {f(k) : k \in DOMAIN d} |-> d[CHOOSE k \in DOMAIN d : f(k) = k2]]

\* json.dump followed by json.load: the keys of the score maps, written as
\* numbers, come back as strings; the numbers in the hasSVOMatch lists come
\* back as numbers.
JsonGraph(g) ==
    [t \in DOMAIN g |->
        [f \in DOMAIN g[t] |->
            IF f \in {"hasSVOVar", "hasSVOEntity"} THEN ReKey(g[t][f], Str)
            ELSE g[t][f]]]

\* load_graph: json.load of the file, {} when the file cannot be read.
load_graph(kg, filename) ==
    IF filename = "mutual.json"
    THEN [kg EXCEPT !.g = MutualGraph.g, !.ord = MutualGraph.ord]
    ELSE IF filename = "saved.json"
    THEN [kg EXCEPT !.g = JsonGraph(SavedGraph.g), !.ord = SavedGraph.ord]
    ELSE IF filename = "chain.json"
    THEN [kg EXCEPT !.g = JsonGraph(ChainGraph.g), !.ord = ChainGraph.ord]
    ELSE IF filename = "water.json"
    THEN [kg EXCEPT !.g = JsonGraph(WaterGraph.g), !.ord = WaterGraph.ord]
    ELSE [kg EXCEPT !.g = <<>>, !.ord = <<>>]

\* The synonym-index files and the entity-table files: no file given, a file
\* that does not exist, and the entity table written by write_svo_index_map
\* after add_concept('water', 1) on a new object.
IndexMapFiles == {"None", "missing.json"}
SvoIndexFiles == {"None", "missing.txt", "water.txt"}

WaterSvoIndex == WaterGraph.svo

\* load_index_map: with a file, open() is called outside any try.
load_index_map(kg, indexmapfile) ==
    IF indexmapfile = "None"
    THEN update_synonyms([kg EXCEPT !.im = [key \in DOMAIN kg.g |-> key]])
    ELSE Raise([kg EXCEPT !.im = <<>>], "FileNotFoundError")

\* The key load_svo_index_map computes for an element read from the file:
\* hash(element['namespace'] + '#' + element['entity']).
newhash(element) == hash(<<element.namespace, "#", element.entity>>)

\* The list comprehension of line 279: hash_map[str(x)] for x in lst.
MatchList(lst, hash_map) ==
    [i \in DOMAIN lst |->
        IF ~lst[i].isList /\ Str(lst[i].h) \in DOMAIN hash_map
        THEN HashItem(hash_map[Str(lst[i].h)]) ELSE lst[i]]

MatchListFails(lst, hash_map) ==
    \E i \in DOMAIN lst : lst[i].isList \/ Str(lst[i].h) \notin DOMAIN hash_map

\* The body of the loop over the terms of update_svo_hash for one node: the
\* score maps keep the keys hash_map knows, under their new values; the
\* hasSVOMatch lists are mapped item by item.
ReindexNode(node, hash_map) ==
    [f \in DOMAIN node |->
        IF f \in {"hasSVOVar", "hasSVOEntity"}
        THEN [k2 \in {hash_map[k] : k \in DOMAIN node[f] \cap DOMAIN hash_map} |->
                 node[f][CHOOSE k \in DOMAIN node[f] \cap DOMAIN hash_map :
                             hash_map[k] = k2]]
        ELSE IF f = "hasSVOMatch"
        THEN [c \in DOMAIN node[f] |-> MatchList(node[f][c], hash_map)]
        ELSE node[f]]

update_svo_hash(kg, hash_map) ==
    IF \E t \in DOMAIN kg.g :
          /\ "hasSVOMatch" \in DOMAIN kg.g[t]
          /\ \E c \in DOMAIN kg.g[t].hasSVOMatch :
                 MatchListFails(kg.g[t].hasSVOMatch[c], hash_map)
    THEN Raise(kg, "KeyError")
    ELSE [kg EXCEPT !.g = [t \in DOMAIN kg.g |-> ReindexNode(kg.g[t], hash_map)]]

\* load_svo_index_map: with a file that does not exist, the message of lines
\* 246-247 is formatted with the undefined name `filename`; with a file, each
\* element is stored under newhash and the keys of the graph are replaced.
load_svo_index_map(kg, svomapfilename) ==
    IF kg.err # NoErr THEN kg
    ELSE IF svomapfilename = "None" THEN [kg EXCEPT !.svo = <<>>]
    ELSE IF svomapfilename = "water.txt"
    THEN update_svo_hash(
             [kg EXCEPT !.svo = [k2 \in {newhash(WaterSvoIndex[h]) : h \in DOMAIN WaterSvoIndex} |->
                                    WaterSvoIndex[CHOOSE h \in DOMAIN WaterSvoIndex :
                                                      newhash(WaterSvoIndex[h]) = k2]]],
             [k \in {Str(h) : h \in DOMAIN WaterSvoIndex} |->
                 newhash(WaterSvoIndex[CHOOSE h \in DOMAIN WaterSvoIndex : Str(h) = k])])
    ELSE Raise([kg EXCEPT !.svo = <<>>], "NameError")

\* SciVarKG(graphfile, svoindexfile, indexmapfile)
init(graphfile, svoindexfile, indexmapfile) ==
    load_svo_index_map(
        load_index_map(
            IF graphfile = "None" THEN EmptyKG ELSE load_graph(EmptyKG, graphfile),
            indexmapfile),
        svoindexfile)

\* write_graph, write_index_map, write_svo_index_map: the text is written
\* inside try/except, a failure prints a warning; self is only read.
write_graph(kg, fails) == kg
write_index_map(kg, fails) == kg
write_svo_index_map(kg, fails) == kg

(***************************************************************************)
(* The state machine: one SciVarKG object and the calls made on it.        *)
(***************************************************************************)
\* graph, order, index_map, svo_index_map: the fields of the object (order is
\* the insertion order of the keys of graph).  last: the last call made, with
\* its arguments, the exception it raised, the keys the graph had before it
\* and the recursive calls it made.
\* ops: the operations called so far.  calls: their number.
\* words, ng: a sentence given to the segmenter and the noun groups it gave
\* (NounGroup.ng); both empty where no sentence is given.
VARIABLES graph, order, index_map, svo_index_map, last, ops, calls, words, ng

vars == <<graph, order, index_map, svo_index_map, last, ops, calls, words, ng>>

\* The number of calls made on the object in one behaviour.
MaxCalls == 3

\* The largest depth asked for; the code clamps at 3.
MaxDepth == 4

Depths == (0 - 1)..MaxDepth

\* The variables given to add_concept.
Variables ==
    {<<>>, <<"moisture">>, <<"mass", "of", "water">>, <<"thermal", "conductivity">>,
     <<"water", "aqua">>, <<"water", "aqua", "h2o">>, <<"properties">>}

\* The terms given to add_term_node directly, each one noun group.
Terms ==
    {<<"mass", "of", "water">>, <<"thermal", "conductivity">>, <<"water", "aqua">>,
     <<"property">>, <<"Water">>, <<"terms", "of", "mass">>, <<"h2o">>, <<"aqua">>}

\* The attributes the parser gives for a term that is one noun group.
AttrOf(t) == NgGet(parse_noun_groups(t), t)

KG == [g |-> graph, ord |-> order, im |-> index_map, svo |-> svo_index_map,
       err |-> NoErr, sub |-> {}, lev |-> {}, inf |-> {}]

\* The object after a call that left it as k.
Becomes(k) ==
    /\ graph' = k.g
    /\ order' = k.ord
    /\ index_map' = k.im
    /\ svo_index_map' = k.svo
    /\ UNCHANGED <<words, ng>>

Call(op, var, depth, k) ==
    [op |-> op, var |-> var, depth |-> depth, file |-> "", svoindexfile |-> "",
     indexmapfile |-> "", failed |-> FALSE, err |-> k.err,
     pre |-> DOMAIN graph, sub |-> k.sub, lev |-> k.lev, inf |-> k.inf]

\* The constructor returned an object.
Constructed == ~(last.op = "__init__" /\ last.err # NoErr)

Init ==
    \E graphfile \in GraphFiles, svoindexfile \in SvoIndexFiles,
       indexmapfile \in IndexMapFiles :
        \E k \in {init(graphfile, svoindexfile, indexmapfile)} :
            /\ graph = k.g
            /\ order = k.ord
            /\ index_map = k.im
            /\ svo_index_map = k.svo
            /\ last = [op |-> "__init__", var |-> <<>>, depth |-> 0,
                        file |-> graphfile, svoindexfile |-> svoindexfile,
                        indexmapfile |-> indexmapfile, failed |-> FALSE,
                        err |-> k.err, pre |-> {}, sub |-> {}, lev |-> {}, inf |-> {}]
            /\ ops = {}
            /\ calls = 0
            /\ words = <<>>
            /\ ng = <<>>

AddConcept(var, depth) ==
    /\ Constructed
    /\ calls < MaxCalls
    /\ \E k \in {add_concept(KG, var, depth)} :
           /\ Becomes(k)
           /\ last' = Call("add_concept", var, depth, k)
    /\ ops' = ops \cup {"add_concept"}
    /\ calls' = calls + 1

AddTermNode(name) ==
    /\ Constructed
    /\ calls < MaxCalls
    /\ \E k \in {add_term_node(KG, name, AttrOf(name))} :
           /\ Becomes(k)
           /\ last' = Call("add_term_node", name, 0, k)
    /\ ops' = ops \cup {"add_term_node"}
    /\ calls' = calls + 1

UpdateSynonyms ==
    /\ Constructed
    /\ calls < MaxCalls
    /\ \E k \in {update_synonyms(KG)} :
           /\ Becomes(k)
           /\ last' = Call("update_synonyms", <<>>, 0, k)
    /\ ops' = ops \cup {"update_synonyms"}
    /\ calls' = calls + 1

\* A write to a file; fails says whether the file could be written.
WriteGraph(fails) ==
    /\ Constructed
    /\ calls < MaxCalls
    /\ \E k \in {write_graph(KG, fails)} :
           /\ Becomes(k)
           /\ last' = [Call("write_graph", <<>>, 0, k) EXCEPT !.failed = fails]
    /\ ops' = ops \cup {"write_graph"}
    /\ calls' = calls + 1

WriteIndexMap(fails) ==
    /\ Constructed
    /\ calls < MaxCalls
    /\ \E k \in {write_index_map(KG, fails)} :
           /\ Becomes(k)
           /\ last' = [Call("write_index_map", <<>>, 0, k) EXCEPT !.failed = fails]
    /\ ops' = ops \cup {"write_index_map"}
    /\ calls' = calls + 1

WriteSvoIndexMap(fails) ==
    /\ Constructed
    /\ calls < MaxCalls
    /\ \E k \in {write_svo_index_map(KG, fails)} :
           /\ Becomes(k)
           /\ last' = [Call("write_svo_index_map", <<>>, 0, k) EXCEPT !.failed = fails]
    /\ ops' = ops \cup {"write_svo_index_map"}
    /\ calls' = calls + 1

Next ==
    \/ \E var \in Variables, depth \in Depths : AddConcept(var, depth)
    \/ \E name \in Terms : AddTermNode(name)
    \/ UpdateSynonyms
    \/ \E fails \in BOOLEAN : WriteGraph(fails)
    \/ \E fails \in BOOLEAN : WriteIndexMap(fails)
    \/ \E fails \in BOOLEAN : WriteSvoIndexMap(fails)

Spec == Init /\ [][Next]_vars

(***************************************************************************)
(* The segmenter on every sentence: a new object is given the noun groups  *)
(* of one sentence, as lines 514-520 of create_concept_levels do.          *)
(***************************************************************************)
\* The longest sentence given.
MaxLen == 4

\* The words of the sentences.
SentenceWords == {"in", "of", "is", "terms", "mass", "water", "Water", "thermal", "wet",
                  "soil", "moisture"}

Sentences == UNION {[1..n -> SentenceWords] : n \in 0..MaxLen}

\* SciVarKG() with no files, nothing parsed yet.
NoFiles ==
    \E k \in {init("None", "None", "None")} :
        /\ graph = k.g
        /\ order = k.ord
        /\ index_map = k.im
        /\ svo_index_map = k.svo
        /\ last = [op |-> "__init__", var |-> <<>>, depth |-> 0,
                    file |-> "None", svoindexfile |-> "None",
                    indexmapfile |-> "None", failed |-> FALSE,
                    err |-> k.err, pre |-> {}, sub |-> {}, lev |-> {}, inf |-> {}]
        /\ ops = {}
        /\ calls = 0
        /\ ng = <<>>

ParseInit ==
    /\ NoFiles
    /\ words \in Sentences

\* pt.ParsedParagraph(variable).get_noun_groups() on a one-sentence variable.
Parse ==
    /\ last.op = "__init__"
    /\ ng' = parse_noun_groups(words)
    /\ last' = Call("parse_noun_groups", words, 0, KG)
    /\ ops' = ops \cup {"parse_noun_groups"}
    /\ calls' = calls + 1
    /\ UNCHANGED <<graph, order, index_map, svo_index_map, words>>

\* Lines 519-520 for the i-th noun group: add_term_node(ng_name.lower(), attr).
AddNounGroup(i) ==
    /\ last.op = "parse_noun_groups"
    /\ \E k \in {add_term_node(KG, Lower(ng[i].name), ng[i].attr)} :
           /\ Becomes(k)
           /\ last' = Call("add_term_node", Lower(ng[i].name), 0, k)
    /\ ops' = ops \cup {"add_term_node"}
    /\ calls' = calls + 1

\* graph_inference() on the object after the noun group was added (after a
\* call that raised, the build has stopped).
GraphInference ==
    /\ last.op = "add_term_node"
    /\ last.err = NoErr
    /\ \E k \in {graph_inference(KG)} :
           /\ Becomes(k)
           /\ last' = Call("graph_inference", <<>>, 0, k)
    /\ ops' = ops \cup {"graph_inference"}
    /\ calls' = calls + 1

ParseNext ==
    \/ Parse
    \/ \E i \in DOMAIN ng : AddNounGroup(i)
    \/ GraphInference

ParseSpec == ParseInit /\ [][ParseNext]_vars

(***************************************************************************)
(* Inference on the noun groups of every run of at most MaxNouns nouns:    *)
(* the same steps as above, on words with every kind of category.          *)
(***************************************************************************)
MaxNouns == 4

InferWords ==
    {"water", "mass", "property", "color", "flow", "basin", "moisture", "liquid", "h2o"}

NounRuns == UNION {[1..n -> InferWords] : n \in 0..MaxNouns}

InferInit ==
    /\ NoFiles
    /\ words \in NounRuns

InferSpec == InferInit /\ [][ParseNext]_vars

(***************************************************************************)
(* The segmenter alone, on longer sentences: NounGroup(words) for every    *)
(* sentence of at most MaxCluster words.                                   *)
(***************************************************************************)
MaxCluster == 7

ClusterWords == {"water", "mass", "property", "wet", "of"}

ClusterSentences == UNION {[1..n -> ClusterWords] : n \in 0..MaxCluster}

SegmentInit ==
    /\ NoFiles
    /\ words \in ClusterSentences

SegmentNext == Parse

SegmentSpec == SegmentInit /\ [][SegmentNext]_vars

(***************************************************************************)
(* Properties.  An action property speaks of a step of the object: the     *)
(* unprimed variables are the object before the call, the primed ones the  *)
(* object after it, last' the call that was made.                          *)
(***************************************************************************)
\* The value of a list field or of a dict field of a node, empty when absent.
FieldOf(node, f) == IF f \in DOMAIN node THEN node[f] ELSE <<>>

\* The list hasSVOMatch holds for category c, empty when absent.
MatchOf(node, c) == FieldOf(FieldOf(node, "hasSVOMatch"), c)

Count(x, s) == Cardinality({i \in DOMAIN s : s[i] = x})

\* The node b names as its first synonym.
FirstSynonym(b) == Lower(graph[b].hasSynonym[1])

\* The duplicates of the graph: the nodes whose first synonym is in the graph.
Duplicates ==
    {b \in DOMAIN graph : /\ FieldOf(graph[b], "hasSynonym") # <<>>
                          /\ FirstSynonym(b) \in DOMAIN graph}

\* The step is an update_synonyms that removed b and kept a, the node b names.
Merged(b, a) ==
    /\ last'.op = "update_synonyms"
    /\ b \in Duplicates
    /\ a = FirstSynonym(b)
    /\ b \notin DOMAIN graph'
    /\ a \in DOMAIN graph'

\* C1: a second add_term_node(name, attr) directly after a first one that
\* completed completes too and leaves the graph exactly as the first call
\* left it (no edge list gains a duplicate, none loses an entry).
C1_AddTermNodeIdempotent ==
    [][(/\ last.op = "add_term_node"
        /\ last.err = NoErr
        /\ last'.op = "add_term_node"
        /\ last'.var = last.var)
       => (last'.err = NoErr /\ graph' = graph)]_vars

\* C2: when update_synonyms merges the removed duplicate b into a, each of the
\* four list fields of a afterwards holds every value a held and every value
\* b held, each exactly once.
C2_ListMergeKeepsAll ==
    [][\A b \in DOMAIN graph, a \in DOMAIN graph :
          Merged(b, a) =>
             \A f \in Range(transfer_links_list) :
                \A v \in Range(FieldOf(graph[a], f)) \cup Range(FieldOf(graph[b], f)) :
                   Count(v, FieldOf(graph'[a], f)) = 1]_vars

ScoreFields == {"hasSVOVar", "hasSVOEntity", "hasWMIndicator"}

\* The score of k after merging the score dicts da and db.
MaxScore(da, db, k) ==
    IF k \in DOMAIN da /\ k \in DOMAIN db THEN RatMax(da[k], db[k])
    ELSE IF k \in DOMAIN da THEN da[k] ELSE db[k]

\* C3: if b names a as its first synonym, both are in the graph and a is not
\* itself a duplicate, then after update_synonyms a's score for every key of
\* the three score fields is the maximum of a's and b's scores, b is no longer
\* a key of the graph and index_map[b] = a.
C3_MergeKeepsScores ==
    [][last'.op = "update_synonyms" =>
          \A b \in Duplicates :
             \E a \in {FirstSynonym(b)} :
                a \notin Duplicates =>
                   /\ b \notin DOMAIN graph'
                   /\ b \in DOMAIN index_map' /\ index_map'[b] = a
                   /\ a \in DOMAIN graph'
                   /\ \A f \in ScoreFields :
                         \A k \in DOMAIN FieldOf(graph[a], f)
                                     \cup DOMAIN FieldOf(graph[b], f) :
                            /\ k \in DOMAIN FieldOf(graph'[a], f)
                            /\ graph'[a][f][k] =
                                 MaxScore(FieldOf(graph[a], f), FieldOf(graph[b], f), k)]_vars

\* C4: when update_synonyms merges b into a, a's hasSVOMatch afterwards maps
\* every category held by a or by b to the flat union of the entity ids the
\* two held for it.
C4_SVOMatchFlatUnion ==
    [][\A b \in DOMAIN graph, a \in DOMAIN graph :
          Merged(b, a) =>
             \A c \in DOMAIN FieldOf(graph[a], "hasSVOMatch")
                         \cup DOMAIN FieldOf(graph[b], "hasSVOMatch") :
                /\ \A i \in DOMAIN MatchOf(graph'[a], c) : ~MatchOf(graph'[a], c)[i].isList
                /\ Range(MatchOf(graph'[a], c)) =
                      Range(MatchOf(graph[a], c)) \cup Range(MatchOf(graph[b], c))]_vars

\* The nodes that survive the pass.
Survivors == (DOMAIN graph' \cap DOMAIN graph) \ Duplicates

\* An entity id is held for category c, directly or inside a merged list.
HoldsMatch(l, id) ==
    \E i \in DOMAIN l : l[i] = id \/ (l[i].isList /\ InSeq(id, l[i].l))

\* C5: an update_synonyms pass that removes several nodes at once completes
\* without error, and every transferable edge and score of every removed node
\* is afterwards on a node that survives.
C5_MultiMergeCompletes ==
    [][(last'.op = "update_synonyms" /\ Cardinality(Duplicates) >= 2) =>
          /\ last'.err = NoErr
          /\ \A b \in Duplicates :
                /\ \A f \in Range(transfer_links_list) :
                      \A v \in Range(FieldOf(graph[b], f)) :
                         \E s \in Survivors : InSeq(v, FieldOf(graph'[s], f))
                /\ \A f \in ScoreFields :
                      \A k \in DOMAIN FieldOf(graph[b], f) :
                         \E s \in Survivors :
                            /\ k \in DOMAIN FieldOf(graph'[s], f)
                            /\ graph'[s][f][k] >= graph[b][f][k]
                /\ \A c \in DOMAIN FieldOf(graph[b], "hasSVOMatch") :
                      \A id \in Range(MatchOf(graph[b], c)) :
                         \E s \in Survivors : HoldsMatch(MatchOf(graph'[s], c), id)]_vars

\* C6: an update_synonyms run directly after an update_synonyms run changes
\* neither the graph nor index_map.
C6_UpdateSynonymsIdempotent ==
    [][(last.op = "update_synonyms" /\ last'.op = "update_synonyms")
       => (graph' = graph /\ index_map' = index_map)]_vars

\* A name resolved through index_map.
Resolve(t) == IF t \in DOMAIN index_map THEN index_map[t] ELSE t

\* The terms node a lists under field f, resolved (isComponentOf keeps its
\* terms under items).
Listed(a, f) ==
    IF f \notin DOMAIN graph[a] THEN {}
    ELSE IF f = "isComponentOf" THEN {Resolve(t) : t \in Range(graph[a][f].items)}
    ELSE {Resolve(t) : t \in Range(graph[a][f])}

\* Field f of node a, when present, is a list of term keys.
IsKeyList(a, f) ==
    f \in DOMAIN graph[a] =>
        /\ f = "isComponentOf" => ~graph[a][f].isStr
        /\ Listed(a, f) \subseteq DOMAIN graph

EdgePairs == {<<"hasComponents", "isComponentOf">>, <<"isTypeOf", "hasType">>,
              <<"hasAttribute", "isAttributeOf">>}

\* C7: after any sequence of add_term_node calls, b is listed in a's
\* hasComponents / isTypeOf / hasAttribute exactly when a is listed in b's
\* isComponentOf / hasType / isAttributeOf, and each of the six fields is a
\* list of term keys.
C7_EdgesBothWays ==
    ops \subseteq {"add_term_node"} =>
        \A a \in DOMAIN graph :
            \A p \in EdgePairs :
                /\ IsKeyList(a, p[1])
                /\ IsKeyList(a, p[2])
                /\ \A b \in DOMAIN graph :
                      b \in Listed(a, p[1]) <=> a \in Listed(b, p[2])

\* new holds everything old holds under field f.
FieldKept(f, old, new) ==
    IF f \in {"pos_seq", "lemma_seq", "type"} THEN new = old
    ELSE IF f = "isComponentOf"
    THEN new.isStr = old.isStr /\ Range(old.items) \subseteq Range(new.items)
    ELSE IF f \in ScoreFields
    THEN \A k \in DOMAIN old : k \in DOMAIN new /\ ~RatLess(new[k], old[k])
    ELSE IF f = "hasSVOMatch"
    THEN \A c \in DOMAIN old : c \in DOMAIN new /\ Range(old[c]) \subseteq Range(new[c])
    ELSE Range(old) \subseteq Range(new)

\* C8: a step of add_concept or add_term_node keeps every key of the graph,
\* leaves its pos_seq, lemma_seq and type as they were and only adds to its
\* edges and annotations.
C8_NeverOverwritten ==
    [][last'.op \in {"add_concept", "add_term_node"} =>
          \A key \in DOMAIN graph :
             /\ key \in DOMAIN graph'
             /\ \A f \in DOMAIN graph[key] :
                   /\ f \in DOMAIN graph'[key]
                   /\ FieldKept(f, graph[key][f], graph'[key][f])]_vars

\* C8 happens: a call that completed was made for a term whose key the graph
\* held already, under another spelling too.
C8_Witness ==
    /\ last.op = "add_term_node"
    /\ last.var = <<"Water">>
    /\ last.err = NoErr
    /\ <<"water">> \in last.pre
    /\ <<"water">> \in DOMAIN graph

\* The node of key is reserved: its name or its lemma is a category name.
IsReserved(key) ==
    key \in category_names \/ Lower(graph[key].lemma_seq) \in category_names

TerminalFields ==
    {"hasComponents", "isTypeOf", "hasAttribute", "hasWWNCategory", "hasWWNDefinition",
     "hasSVOMatch", "hasSVOVar", "hasSVOEntity", "isDefinedBy", "isWWNDefinedBy",
     "hasSynonym", "isRelatedTo"}

\* C9: after any sequence of add_concept calls a node whose name or lemma is
\* a category name is a stub: it has none of the fields that decomposition,
\* the dictionary, the ontology search and definition mining write.
C9_ReservedTerminal ==
    ops \subseteq {"add_concept"} =>
        \A key \in DOMAIN graph :
            IsReserved(key) => DOMAIN graph[key] \cap TerminalFields = {}

\* C9 happens: add_concept calls have put a node reserved by name and a node
\* reserved by lemma in the graph, next to nodes that were expanded.
C9_Witness ==
    /\ ops = {"add_concept"}
    /\ <<"property">> \in DOMAIN graph
    /\ <<"properties">> \in DOMAIN graph
    /\ <<"property", "of", "heat">> \in DOMAIN graph

\* C10: add_concept with a depth above 3 leaves graph, index_map and
\* svo_index_map as add_concept with depth 3 leaves them; with a depth of 0 or
\* less, or with an empty term, it leaves the three unchanged.
C10_DepthClamped ==
    [][last'.op = "add_concept" =>
          /\ last'.depth > 3 =>
                \E r \in {add_concept(KG, last'.var, 3)} :
                   /\ graph' = r.g
                   /\ index_map' = r.im
                   /\ svo_index_map' = r.svo
          /\ (last'.depth <= 0 \/ last'.var = <<>>) =>
                UNCHANGED <<graph, index_map, svo_index_map>>]_vars

\* C10 happens: a call with a depth above 3 has expanded three levels
\* (moisture, water, liquid) and not the fourth (fluid).
C10_Witness ==
    /\ last.op = "add_concept"
    /\ last.var = <<"moisture">>
    /\ last.depth > 3
    /\ last.err = NoErr
    /\ last.pre = {}
    /\ <<"liquid">> \in DOMAIN graph
    /\ <<"fluid">> \notin DOMAIN graph

\* C11: the recursion of a call is well-founded.  Every recursive
\* create_concept_levels call is made from a depth above 0 with the depth
\* less by one and never below 0, also where two terms define each other;
\* every recursive add_term_node call is made on a term of at least one word
\* that has strictly fewer words than the caller's term.
C11_RecursionDecreases ==
    /\ \A c \in last.lev :
          /\ c.depth > 0
          /\ c.to_depth = c.depth - 1
          /\ c.to_depth >= 0
    /\ \A c \in last.sub :
          /\ Len(c.to) >= 1
          /\ Len(c.to) < Len(c.of)

\* C11 happens: one add_concept call went from water to liquid and, a level
\* down, from liquid back to water, reached depth 0 and split a term of two
\* words into single words.
C11_Witness ==
    /\ last.op = "add_concept"
    /\ \E a, b \in last.lev :
          /\ a.of = <<"water">> /\ a.to = <<"liquid">>
          /\ b.of = <<"liquid">> /\ b.to = <<"water">>
          /\ b.depth = a.to_depth
    /\ \E c \in last.lev : c.to_depth = 0
    /\ \E c \in last.sub : Len(c.of) = 2 /\ Len(c.to) = 1

\* The lookup of term t misses (no text, no title, no redirect) or gives a
\* disambiguation page.
LookupFails(t) ==
    \E page \in {get_wikipedia_text(t)} :
        \/ page.disambig
        \/ page.text = <<>> /\ page.title = <<>> /\ page.redirecttitle = <<>>

LookupFields == {"isRelatedTo", "hasSynonym", "isDefinedBy", "isCloselyRelatedTo"}

\* C12: a call that adds a node for a term whose encyclopedia lookup misses
\* or gives a disambiguation page completes without an exception, the node
\* has none of isRelatedTo, hasSynonym, isDefinedBy, isCloselyRelatedTo, and
\* every component listed by a node of the graph has its own entry (the
\* siblings of the term were processed).
C12_LookupMissNonFatal ==
    [][\A t \in DOMAIN graph' \ DOMAIN graph :
          LookupFails(t) =>
             /\ last'.err = NoErr
             /\ DOMAIN graph'[t] \cap LookupFields = {}
             /\ \A p \in DOMAIN graph' \ DOMAIN graph :
                   "hasComponents" \in DOMAIN graph'[p] =>
                       \A i \in DOMAIN graph'[p].hasComponents :
                           graph'[p].hasComponents[i] \in DOMAIN index_map']_vars

\* C13: the constructor given a graph file, a synonym-index file or an
\* entity-table file that cannot be read returns an object, with the
\* structure of that file empty; a write_graph, write_index_map or
\* write_svo_index_map that fails leaves graph, index_map and svo_index_map
\* as they were.
C13_FileFailuresHarmless ==
    /\ [](last.op = "__init__" =>
            /\ last.file = "missing.json" => last.err = NoErr /\ graph = <<>>
            /\ last.indexmapfile = "missing.json" => last.err = NoErr /\ index_map = <<>>
            /\ last.svoindexfile = "missing.txt" =>
                  last.err = NoErr /\ svo_index_map = <<>>)
    /\ [][last'.failed => UNCHANGED <<graph, index_map, svo_index_map>>]_vars

\* One or more ADJECTIVE followed by NOUNs only.
IsModifiedNoun(pos_seq) ==
    \E k \in 1..(Len(pos_seq) - 1) :
        /\ \A j \in 1..k : pos_seq[j] = "ADJECTIVE"
        /\ \A j \in (k + 1)..Len(pos_seq) : pos_seq[j] = "NOUN"

\* The noun groups of ng: the clusters and their components.
AllGroups ==
    Range(ng) \cup
    UNION {Range(e.attr.components) : e \in {c \in Range(ng) : "components" \in DOMAIN c.attr}}

\* The terms node a lists under field f, in lower case.
ListedLower(a, f) ==
    IF a \notin DOMAIN graph \/ f \notin DOMAIN graph[a] THEN {}
    ELSE {Lower(t) : t \in Range(graph[a][f])}

\* The segmenter's split of a modified noun e after its k leading adjectives.
SplitAt(e, k) ==
    /\ "has_type" \in DOMAIN e.attr
    /\ e.attr.has_type =
          <<[name |-> SliceFrom(e.name, k),
             attr |-> [pos_seq |-> SliceFrom(e.attr.pos_seq, k),
                       lemma_seq |-> SliceFrom(e.attr.lemma_seq, k),
                       type |-> IF Len(e.name) - k = 1 THEN "noun" ELSE "noungrp"]]>>
    /\ "has_attribute" \in DOMAIN e.attr
    /\ Range(e.attr.has_attribute) =
          {[name |-> <<e.name[j]>>,
            attr |-> [pos_seq |-> <<"ADJECTIVE">>,
                      lemma_seq |-> <<e.attr.lemma_seq[j]>>, type |-> "adj"]] : j \in 1..k}

\* The edges of a modified-noun node p with k leading adjectives.
SplitEdges(p, k) ==
    /\ SliceFrom(p, k) \in ListedLower(p, "isTypeOf")
    /\ p \in ListedLower(SliceFrom(p, k), "hasType")
    /\ \A j \in 1..k :
          /\ <<p[j]>> \in ListedLower(p, "hasAttribute")
          /\ p \in ListedLower(<<p[j]>>, "isAttributeOf")

\* C14: every noun group tagged one or more ADJECTIVE followed only by NOUNs
\* is split by the segmenter into one head, everything from the first NOUN
\* on (a noun when one word, a noungrp otherwise), and one attribute per
\* leading adjective with the lemma of its position; and every node of such
\* a term lists its head in isTypeOf and its adjectives in hasAttribute, the
\* head's node lists it in hasType and each adjective's node in isAttributeOf.
C14_ModifiedNounSplit ==
    /\ \A e \in AllGroups :
          IsModifiedNoun(e.attr.pos_seq) => SplitAt(e, FirstNoun(e.attr.pos_seq))
    /\ \A p \in DOMAIN graph :
          IsModifiedNoun(graph[p].pos_seq) => SplitEdges(p, FirstNoun(graph[p].pos_seq))

\* The components of the clusters of ng.
AllComponents ==
    UNION {Range(e.attr.components) : e \in {c \in Range(ng) : "components" \in DOMAIN c.attr}}

\* Position i of words holds a single NOUN between two ADPOSITION tokens, a
\* word that occurs nowhere else in the sentence.
BetweenAdpositions(i) ==
    /\ i - 1 \in DOMAIN words /\ i + 1 \in DOMAIN words
    /\ upos(words[i - 1]) = "ADP" /\ upos(words[i]) = "NOUN" /\ upos(words[i + 1]) = "ADP"
    /\ \A j \in DOMAIN words : words[j] = words[i] => j = i

\* C15: the noun groups of "in terms of mass" have "mass" as a component and
\* neither a cluster nor a component "terms"; and of no sentence is a single
\* NOUN that stands between two ADPOSITION tokens a component.
C15_AdpositionWindowDropped ==
    last.op # "__init__" =>
        /\ words = <<"in", "terms", "of", "mass">> =>
              /\ \E e \in AllComponents : e.name = <<"mass">>
              /\ \A e \in AllGroups : e.name # <<"terms">>
        /\ \A i \in DOMAIN words :
              BetweenAdpositions(i) => \A e \in AllComponents : e.name # <<words[i]>>

\* The single-word components of the noun group t that the tally visits, as
\* positions in its component list, and the category of each.
TalliedAt(t) ==
    {i \in DOMAIN graph[t].hasComponents :
        /\ graph[t].hasComponents[i] \in DOMAIN index_map
        /\ Len(index_map[graph[t].hasComponents[i]]) = 1}

CategoryAt(t, i) == graph[index_map[graph[t].hasComponents[i]]].detSVOCategory

CountOf(t, c) == Cardinality({i \in TalliedAt(t) : CategoryAt(t, i) = c})

WinnersOf(t) ==
    {c \in {CategoryAt(t, i) : i \in TalliedAt(t)} :
        \A i \in TalliedAt(t) : CountOf(t, CategoryAt(t, i)) <= CountOf(t, c)}

FirstWinner(t) ==
    CategoryAt(t, CHOOSE i \in TalliedAt(t) :
                     /\ CategoryAt(t, i) \in WinnersOf(t)
                     /\ \A j \in TalliedAt(t) : j < i => CategoryAt(t, j) \notin WinnersOf(t))

AssignedCategory(t) ==
    IF {"Phenomenon", "Property"} \subseteq WinnersOf(t) THEN "Variable"
    ELSE IF "Phenomenon" \in WinnersOf(t) \/ WinnersOf(t) = {} THEN "Phenomenon"
    ELSE IF "Property" \in WinnersOf(t) THEN "Property"
    ELSE IF "Attribute" \in WinnersOf(t) THEN "Attribute"
    ELSE IF "Process" \in WinnersOf(t) THEN "Process"
    ELSE FirstWinner(t)

\* C16: after graph inference every noun group carries the category chosen
\* from the tally of the categories of its single-word components: the
\* categories with the highest count are the winners; Variable if Phenomenon
\* and Property are both winners, else Phenomenon if it is a winner or there is
\* no winner, else Property, Attribute, Process, else the first winner.
C16_GroupCategoryFromTally ==
    (last.op = "graph_inference" /\ last.err = NoErr) =>
        \A t \in DOMAIN graph :
            graph[t].type = "noungrp" => graph[t].detSVOCategory = AssignedCategory(t)

\* A noun group in which Phenomenon and Property share the highest count got
\* Variable.
C16_Witness ==
    /\ last.op = "graph_inference"
    /\ last.err = NoErr
    /\ \E t \in DOMAIN graph :
          /\ graph[t].type = "noungrp"
          /\ WinnersOf(t) = {"Phenomenon", "Property"}
          /\ CountOf(t, "Phenomenon") = CountOf(t, "Property")
          /\ graph[t].detSVOCategory = "Variable"

\* The decay of an edge type: 1.0 for hasComponents, hasAttribute and
\* isTypeOf, 0.83 for isDefinedBy and isWWNDefinedBy.
Decay(link) ==
    IF link \in {"isDefinedBy", "isWWNDefinedBy"} THEN [n |-> 83, d |-> 100]
    ELSE [n |-> 1, d |-> 1]

RECURSIVE DecayedSum(_, _, _, _)
\* The sum over the linked terms i..Len(scores) that hold key K of
\* decay * score(K) / k, k the number of linked terms.
DecayedSum(scores, K, decay, i) ==
    IF i > Len(scores) THEN [n |-> 0, d |-> 1]
    ELSE IF K \in DOMAIN scores[i]
    THEN RatAdd(RatScale(scores[i][K], decay, Len(scores)),
                DecayedSum(scores, K, decay, i + 1))
    ELSE DecayedSum(scores, K, decay, i + 1)

\* The keys held by some linked term of a pass.
LinkedKeys(rec) == UNION {DOMAIN rec.scores[i] : i \in DOMAIN rec.scores}

\* C17: in graph_add_var_entity_links a node with k linked terms of one edge
\* type receives for every key K the sum over those linked terms of
\* decay * score(K) / k (decay 1.0 for hasComponents, hasAttribute, isTypeOf,
\* 0.83 for isDefinedBy, isWWNDefinedBy); the value is written to the node's
\* map only if it is strictly greater than 0.05 (a new key gets the value, a
\* key already there the larger of the two), and nothing else in the map
\* changes.
C17_DecayedShare ==
    (last.op = "graph_inference" /\ last.err = NoErr) =>
        \A rec \in last.inf :
            /\ DOMAIN rec.new_val = LinkedKeys(rec)
            /\ \A K \in LinkedKeys(rec) :
                  /\ rec.new_val[K] = DecayedSum(rec.scores, K, Decay(rec.link), 1)
                  /\ IF RatLess([n |-> 1, d |-> 20], rec.new_val[K])
                     THEN /\ K \in DOMAIN rec.after
                          /\ rec.after[K] = IF K \in DOMAIN rec.before
                                            THEN RatMax(rec.new_val[K], rec.before[K])
                                            ELSE rec.new_val[K]
                     ELSE /\ K \in DOMAIN rec.after <=> K \in DOMAIN rec.before
                          /\ K \in DOMAIN rec.before => rec.after[K] = rec.before[K]
            /\ \A K \in (DOMAIN rec.before \cup DOMAIN rec.after) \ LinkedKeys(rec) :
                  /\ K \in DOMAIN rec.before
                  /\ K \in DOMAIN rec.after
                  /\ rec.after[K] = rec.before[K]

\* One inference in which a node with a single isDefinedBy term received 0.83
\* of that term's score, a node with several components received the k-th
\* part of a component's score, and a share of exactly 0.05 was not written.
C17_Witness ==
    /\ last.op = "graph_inference"
    /\ last.err = NoErr
    /\ \E rec \in last.inf : \E K \in LinkedKeys(rec) :
          /\ rec.link = "isDefinedBy"
          /\ Len(rec.scores) = 1
          /\ K \notin DOMAIN rec.before
          /\ K \in DOMAIN rec.after
          /\ rec.after[K] = RatScale(rec.scores[1][K], [n |-> 83, d |-> 100], 1)
    /\ \E rec \in last.inf : \E K \in LinkedKeys(rec) :
          /\ rec.link = "hasComponents"
          /\ Len(rec.scores) >= 3
          /\ K \notin DOMAIN rec.before
          /\ K \in DOMAIN rec.after
    /\ \E rec \in last.inf : \E K \in LinkedKeys(rec) :
          /\ rec.new_val[K] = [n |-> 1, d |-> 20]
          /\ K \notin DOMAIN rec.after

\* The keys of the graph file the constructor loaded (in the state after
\* construction).
LoadedKeys == DOMAIN load_graph(EmptyKG, last.file).g

\* Only the constructor and add_concept have run.
OnlyAddConcept == Constructed /\ ops \subseteq {"add_concept"}

\* C18: in every state reached after construction (with its update_synonyms
\* merge) and any sequence of add_concept calls, every value of index_map is
\* a key of the graph and every key of the graph is a key of index_map; the
\* key of a node removed by the merge is in index_map, maps to a surviving
\* node, and no add_concept call takes a key out of index_map.
C18_IndexMapConsistent ==
    /\ [](OnlyAddConcept =>
            /\ \A key \in DOMAIN index_map : index_map[key] \in DOMAIN graph
            /\ DOMAIN graph \subseteq DOMAIN index_map)
    /\ []((last.op = "__init__" /\ Constructed) =>
            \A key \in LoadedKeys \ DOMAIN graph :
                /\ key \in DOMAIN index_map
                /\ index_map[key] \in DOMAIN graph)
    /\ [][(OnlyAddConcept /\ last'.op = "add_concept") =>
            DOMAIN index_map \subseteq DOMAIN index_map']_vars

\* A term with an upper-case letter.
HasUpper(t) == Lower(t) # t

\* The sub-term names of attr (has_type, has_attribute, components).
SubTermNames(attr) ==
    UNION {{attr[f][j].name : j \in DOMAIN attr[f]} :
             f \in {"has_type", "has_attribute", "components"} \cap DOMAIN attr}

\* The term names node a stores in its edge lists.
EdgeTerms(a) ==
    UNION {Range(graph[a][f]) :
             f \in {"hasComponents", "isTypeOf", "hasType", "hasAttribute",
                    "isAttributeOf"} \cap DOMAIN graph[a]}
    \cup (IF "isComponentOf" \in DOMAIN graph[a]
          THEN Range(graph[a].isComponentOf.items) ELSE {})

\* The i-th noun group is the one the last call added.
AddedGroup(i) ==
    /\ last.op = "add_term_node"
    /\ Lower(ng[i].name) = last.var
    /\ \A j \in DOMAIN ng : Lower(ng[j].name) = last.var => j = i

\* C19: when the attributes given to add_term_node have sub-term names
\* (has_type, has_attribute, components) with upper-case letters, the call
\* completes, every graph key and every term name stored in an edge list is
\* lower-case, and the graph equals the one obtained from the same input
\* written in lower case.
C19_UpperCaseSubTerms ==
    \A i \in DOMAIN ng :
        (AddedGroup(i) /\ \E t \in SubTermNames(ng[i].attr) : HasUpper(t)) =>
            /\ last.err = NoErr
            /\ \A a \in DOMAIN graph :
                  /\ ~HasUpper(a)
                  /\ \A t \in EdgeTerms(a) : ~HasUpper(t)
            /\ graph = add_term_node(EmptyKG, last.var,
                                     parse_noun_groups(Lower(words))[i].attr).g

\* name is a key of index_map that points to another node and no node is
\* keyed by name: a synonym recorded by add_related.
IsAlias(name) ==
    /\ name \in DOMAIN index_map
    /\ index_map[name] # name
    /\ name \notin DOMAIN graph
    /\ index_map[name] \in DOMAIN graph
    /\ "hasSynonym" \in DOMAIN graph[index_map[name]]
    /\ InSeq(name, graph[index_map[name]].hasSynonym)

\* C20: add_term_node(name, attr) on a name that index_map maps to another
\* node, with no node keyed by name, completes without error, creates no
\* node keyed by name, and attaches what it finds for name (here the
\* dictionary categories) to the node index_map[name].
C20_AliasUsesCanonicalNode ==
    [][(last'.op = "add_term_node" /\ IsAlias(last'.var)) =>
          /\ last'.err = NoErr
          /\ last'.var \notin DOMAIN graph'
          /\ index_map'[last'.var] = index_map[last'.var]
          /\ \A j \in DOMAIN get_category(last'.var) :
                /\ "hasWWNCategory" \in DOMAIN graph'[index_map[last'.var]]
                /\ InSeq(get_category(last'.var)[j].category,
                         graph'[index_map[last'.var]].hasWWNCategory)]_vars

\* The top-level clusters of the variable of the last add_concept call, and
\* the nodes touched while they were added: the clusters and the sub-terms
\* that add_term_node was called on from them.
TopClusters == {Lower(e.name) : e \in Range(parse_noun_groups(last.var))}

Touched == TopClusters \cup {r.to : r \in {q \in last.sub : q.of \in TopClusters}}

\* The terms node a lists in isDefinedBy and isWWNDefinedBy.
DefinedBy(a) ==
    IF a \notin DOMAIN index_map \/ index_map[a] \notin DOMAIN graph THEN {}
    ELSE (IF "isDefinedBy" \in DOMAIN graph[index_map[a]]
          THEN Range(graph[index_map[a]].isDefinedBy) ELSE {})
         \cup (IF "isWWNDefinedBy" \in DOMAIN graph[index_map[a]]
               THEN Range(graph[index_map[a]].isWWNDefinedBy) ELSE {})

\* The depth create_concept_levels ran with in the last add_concept call.
PassDepth == IF last.depth > 3 THEN 3 ELSE last.depth

\* create_concept_levels(t, depth - 1) was called from the top-level pass.
ExpandedFromTop(t) ==
    \E r \in last.lev : r.depth = PassDepth /\ r.to = t /\ r.to_depth = PassDepth - 1

\* C21: after add_concept(variable, depth) with depth > 0 has completed,
\* create_concept_levels(t, depth - 1) was called for every term t listed in
\* isDefinedBy or isWWNDefinedBy of every node touched in the top-level pass:
\* the top-level clusters and the sub-terms created while decomposing them.
C21_ExpansionFollowsTouched ==
    (last.op = "add_concept" /\ last.err = NoErr /\ last.depth > 0) =>
        \A a \in Touched : \A t \in DefinedBy(a) : ExpandedFromTop(t)

\* The encyclopedia has a page titled a, without redirect, with a paragraph
\* that holds an "is" statement about a.
HasDefinition(a) ==
    /\ ~get_wikipedia_text(a).disambig
    /\ get_wikipedia_text(a).title = a
    /\ get_wikipedia_text(a).redirecttitle = <<>>
    /\ get_wikipedia_text(a).text # <<>>
    /\ find_is_nsubj(get_wikipedia_text(a).text, a) # 0

\* The definition paragraph of a.
DefinitionParagraph(a) ==
    get_wikipedia_text(a).text[find_is_nsubj(get_wikipedia_text(a).text, a)]

\* The noun groups of sentence i of the definition paragraph of a, but a.
SentenceGroups(a, i) ==
    {Lower(e.name) : e \in Range(parse_noun_groups(DefinitionParagraph(a)[i].words))} \ {a}

\* The terms node a of graph g lists under field f.
ListedIn(g, a, f) == IF f \in DOMAIN g[a] THEN Range(g[a][f]) ELSE {}

\* C22: a node created by a completed add_term_node or add_concept call whose
\* definition paragraph has n >= 1 sentences lists in isDefinedBy the noun
\* groups of the first sentence (other than the term itself) and, for
\* n >= 2, in isCloselyRelatedTo the noun groups of the second sentence; no
\* later sentence contributes, also for n = 1.
C22_FirstTwoSentences ==
    [][(last'.op \in {"add_term_node", "add_concept"} /\ last'.err = NoErr) =>
          \A a \in DOMAIN graph' \ DOMAIN graph :
              HasDefinition(a) =>
                  /\ ListedIn(graph', a, "isDefinedBy") = SentenceGroups(a, 1)
                  /\ ListedIn(graph', a, "isCloselyRelatedTo") =
                        IF Len(DefinitionParagraph(a)) >= 2
                        THEN SentenceGroups(a, 2) ELSE {}]_vars

\* The category of the head type sub-term of node t: of the node its first
\* isTypeOf entry resolves to.
HeadCategory(t) == graph[index_map[graph[t].isTypeOf[1]]].detSVOCategory

\* C23: after graph inference every node of type modnoun and every node of
\* type modnoungrp has a head type sub-term (a first isTypeOf entry) with
\* category c, and carries Attribute if c is Attribute, Variable if c is
\* Variable, and "Specialized" followed by c otherwise.
C23_ModifiedNounCategory ==
    (last.op = "graph_inference" /\ last.err = NoErr) =>
        \A t \in DOMAIN graph :
            graph[t].type \in {"modnoun", "modnoungrp"} =>
                /\ "isTypeOf" \in DOMAIN graph[t]
                /\ graph[t].isTypeOf # <<>>
                /\ graph[t].isTypeOf[1] \in DOMAIN index_map
                /\ index_map[graph[t].isTypeOf[1]] \in DOMAIN graph
                /\ graph[t].detSVOCategory =
                      IF HeadCategory(t) = "Attribute" THEN "Attribute"
                      ELSE IF HeadCategory(t) = "Variable" THEN "Variable"
                      ELSE "Specialized" \o HeadCategory(t)

\* The categories of the components of node t.
ComponentCategories(t) ==
    {graph[index_map[c]].detSVOCategory :
        c \in {x \in Range(graph[t].hasComponents) :
                 x \in DOMAIN index_map /\ index_map[x] \in DOMAIN graph}}

\* The first category of the priority list that is in cats, Phenomenon if
\* none is.
FirstPresent(cats, priority) ==
    IF \E j \in DOMAIN priority : priority[j] \in cats
    THEN priority[CHOOSE j \in DOMAIN priority :
                    /\ priority[j] \in cats
                    /\ \A k \in 1..(j - 1) : priority[k] \notin cats]
    ELSE "Phenomenon"

OfCompoundCategory(cats) ==
    IF cats \cap {"Phenomenon", "SpecializedPhenomenon"} # {}
       /\ cats \cap {"Property", "SpecializedProperty"} # {}
    THEN "Variable"
    ELSE FirstPresent(cats, <<"SpecializedPhenomenon", "Phenomenon", "SpecializedProperty",
                              "Property", "SpecializedAttribute", "Attribute",
                              "SpecializedProcess", "Process">>)

\* C24: after graph inference a node built from an adposition compound that
\* contains the word "of" carries Variable when the categories of its
\* components include a Phenomenon-family and a Property-family category,
\* otherwise the first present of SpecializedPhenomenon, Phenomenon,
\* SpecializedProperty, Property, SpecializedAttribute, Attribute,
\* SpecializedProcess, Process, and Phenomenon if none; an adposition
\* compound without "of" carries Phenomenon.
C24_OfCompoundCategory ==
    (last.op = "graph_inference" /\ last.err = NoErr) =>
        \A t \in DOMAIN graph :
            (graph[t].type = "compound" /\ "hasComponents" \in DOMAIN graph[t]) =>
                graph[t].detSVOCategory =
                    IF InSeq("of", t) THEN OfCompoundCategory(ComponentCategories(t))
                    ELSE "Phenomenon"

\* The class names of the ontology and the dictionary in the vocabulary.
ClassNames ==
    {"Phenomenon", "Property", "Attribute", "Process", "Variable", "Matter", "Role",
     "Form", "Body"}

\* The categories named by the specification: the five base names and the
\* names formed by the prefix "Specialized".
NamedCategories ==
    {"Phenomenon", "Property", "Attribute", "Process", "Variable"}
    \cup {"Specialized" \o c : c \in ClassNames}

\* C25: after graph inference every node of the graph has a detSVOCategory
\* and it is Phenomenon, Property, Attribute, Process, Variable or a name
\* that begins with "Specialized"; before graph inference has run no node
\* has a detSVOCategory.
C25_CategoryDomain ==
    /\ (last.op = "graph_inference" /\ last.err = NoErr) =>
          \A t \in DOMAIN graph :
              /\ "detSVOCategory" \in DOMAIN graph[t]
              /\ graph[t].detSVOCategory \in NamedCategories
    /\ "graph_inference" \notin ops =>
          \A t \in DOMAIN graph : "detSVOCategory" \notin DOMAIN graph[t]

\* The sequence s in reverse.
Reverse(s) == [i \in DOMAIN s |-> s[Len(s) + 1 - i]]

\* The score maps of the nodes of graph g.
ScoreMaps(g) ==
    [t \in DOMAIN g |->
        [f \in {"hasSVOVar", "hasSVOEntity", "hasWMIndicator"} \cap DOMAIN g[t] |-> g[t][f]]]

\* C26: in graph_add_var_entity_links the value a node receives through one
\* edge type is computed only from the scores its directly linked nodes held
\* when the sweep for that edge type began (so no score travels two hops of
\* one edge type in one pass), and the resulting score maps do not depend on
\* the order in which the nodes are visited: visiting them in the reverse
\* order gives the same maps.
C26_OneShotPropagation ==
    [][(last'.op = "graph_inference" /\ last'.err = NoErr) =>
          /\ \A rec \in last'.inf : rec.scores = rec.held
          /\ ScoreMaps(graph') =
                ScoreMaps(add_var_entity_links_in(graph_define_svo_category(KG),
                                                  Reverse(order)).g)]_vars

\* The entity (namespace, entity-id) a key of the entity side table stands for.
EntityOf(h) == <<svo_index_map[h].namespace, svo_index_map[h].entity>>

\* No two of the keys name the same entity of the side table.
OneKeyEach(keys) ==
    \A h1, h2 \in keys \cap DOMAIN svo_index_map :
        EntityOf(h1) = EntityOf(h2) => h1 = h2

\* The entity keys a node holds in a field: the keys of a score map, the
\* hashes of all the lists of hasSVOMatch.
KeysHeld(node, f) ==
    IF f \notin DOMAIN node THEN {}
    ELSE IF f = "hasSVOMatch"
    THEN UNION {{node[f][c][i].h : i \in {j \in DOMAIN node[f][c] : ~node[f][c][j].isList}} :
                   c \in DOMAIN node[f]}
    ELSE DOMAIN node[f]

\* C27: every ontology entity has one key: on an object that was constructed
\* (from no files or from the graph and the entity table written earlier), no
\* two keys of svo_index_map stand for the same (namespace, entity-id), and no
\* node holds two keys of the same entity in hasSVOVar, in hasSVOEntity or in
\* hasSVOMatch, whatever entities are looked up afterwards.
C27_OneKeyPerEntity ==
    Constructed =>
        /\ OneKeyEach(DOMAIN svo_index_map)
        /\ \A t \in DOMAIN graph :
               \A f \in {"hasSVOVar", "hasSVOEntity", "hasSVOMatch"} :
                   OneKeyEach(KeysHeld(graph[t], f))

\* The clusters of the parsed sentence: the entries of NounGroup.ng and the
\* entries of their components (the entries set_values writes).
ClustersOf(groups) ==
    {groups[i].attr : i \in DOMAIN groups}
    \cup UNION {{groups[i].attr.components[j].attr : j \in DOMAIN groups[i].attr.components} :
                  i \in {k \in DOMAIN groups : "components" \in DOMAIN groups[k].attr}}

HasTag(pos, tag) == \E i \in DOMAIN pos : pos[i] = tag

Adjacent(pos, a, b) == \E i \in 1..(Len(pos) - 1) : pos[i] = a /\ pos[i + 1] = b

\* The shape the first matching rule gives.
FirstRule(pos) ==
    CASE HasTag(pos, "ADPOSITION") -> "compound"
      [] ~HasTag(pos, "ADPOSITION") /\ Adjacent(pos, "NOUN", "ADJECTIVE") -> "modnoungrp"
      [] ~HasTag(pos, "ADPOSITION") /\ ~Adjacent(pos, "NOUN", "ADJECTIVE")
         /\ HasTag(pos, "NOUN") /\ HasTag(pos, "ADJECTIVE") -> "modnoun"
      [] ~HasTag(pos, "ADPOSITION") /\ ~HasTag(pos, "NOUN") /\ HasTag(pos, "ADJECTIVE") -> "adj"
      [] ~HasTag(pos, "ADPOSITION") /\ ~HasTag(pos, "ADJECTIVE") /\ Len(pos) > 1 -> "noungrp"
      [] OTHER -> "noun"

\* C28: the shape of every cluster of a parsed sentence (and of every
\* component of a cluster) is the one the first matching rule gives for its
\* pos_seq: ADPOSITION -> compound, else NOUN next to a following ADJECTIVE ->
\* modnoungrp, else NOUN and ADJECTIVE -> modnoun, else ADJECTIVE -> adj, else
\* more than one word -> noungrp, else noun; and the sentence 'soil moisture'
\* gives the one cluster 'soil moisture', a noungrp with pos_seq NOUN NOUN and
\* no has_type, has_attribute or components.
C28_ShapeByFirstRule ==
    "parse_noun_groups" \in ops =>
        /\ \A c \in ClustersOf(ng) : c.type = FirstRule(c.pos_seq)
        /\ words = <<"soil", "moisture">> =>
              /\ Len(ng) = 1
              /\ ng[1].name = <<"soil", "moisture">>
              /\ ng[1].attr.type = "noungrp"
              /\ ng[1].attr.pos_seq = <<"NOUN", "NOUN">>
              /\ DOMAIN ng[1].attr = {"pos_seq", "lemma_seq", "type"}

\* 'soil moisture' has been parsed into a noun group.
C28_Witness ==
    /\ last.op = "parse_noun_groups"
    /\ words = <<"soil", "moisture">>
    /\ ng[1].attr.type = "noungrp"


\* The entries below a cluster: its has_type, has_attribute and components
\* entries, and the has_type and has_attribute entries of its components.
SubEntries(a) ==
    LET under(x, f) == IF f \in DOMAIN x THEN {x[f][j].attr : j \in DOMAIN x[f]} ELSE {}
    IN  under(a, "has_type") \cup under(a, "has_attribute") \cup under(a, "components")
        \cup UNION {under(c, "has_type") \cup under(c, "has_attribute") :
                      c \in under(a, "components")}

WellFormedCluster(name, a) ==
    /\ name # <<>>
    /\ Len(a.pos_seq) = Len(name)
    /\ \A i \in DOMAIN a.pos_seq : a.pos_seq[i] \in {"NOUN", "ADJECTIVE", "ADPOSITION"}
    /\ a.pos_seq[Len(a.pos_seq)] = "NOUN"
    /\ a.pos_seq[1] \in {"NOUN", "ADJECTIVE"}
    /\ ~Adjacent(a.pos_seq, "ADJECTIVE", "ADPOSITION")
    /\ Len(a.pos_seq) = Len(a.lemma_seq)
    /\ \A e \in SubEntries(a) : Len(e.pos_seq) = Len(e.lemma_seq)

\* C29: every cluster the segmenter stores in NounGroup.ng is non-empty, holds
\* only NOUN, ADJECTIVE and ADPOSITION tags, ends with a NOUN, starts with a
\* NOUN or an ADJECTIVE, has no ADJECTIVE immediately followed by an
\* ADPOSITION, and has pos_seq and lemma_seq of equal length, as have its
\* has_type, has_attribute and components entries.
C29_ClustersWellFormed ==
    "parse_noun_groups" \in ops =>
        \A i \in DOMAIN ng : WellFormedCluster(ng[i].name, ng[i].attr)

\* A sentence that begins with an adposition has been parsed into one cluster,
\* the sentence without its first word, with an attribute and a type.
C29_Witness ==
    /\ last.op = "parse_noun_groups"
    /\ Len(words) = 4
    /\ upos(words[1]) = "ADP"
    /\ Len(ng) = 1
    /\ ng[1].name = Tail(words)
    /\ ng[1].attr.pos_seq = <<"ADJECTIVE", "NOUN", "NOUN">>
    /\ {"has_type", "has_attribute"} \subseteq DOMAIN ng[1].attr


\* The maximal runs of non-ADPOSITION tokens of pos, as pairs of 0-based
\* bounds (first, one past the last).
Runs(pos) ==
    {<<a, b>> \in (0..Len(pos)) \X (0..Len(pos)) :
        /\ a < b
        /\ \A i \in (a + 1)..b : pos[i] # "ADPOSITION"
        /\ a = 0 \/ pos[a] = "ADPOSITION"
        /\ b = Len(pos) \/ pos[b + 1] = "ADPOSITION"}

\* A run that is one NOUN between two ADPOSITION tokens.
InWindow(pos, run) ==
    /\ run[2] = run[1] + 1
    /\ pos[run[2]] = "NOUN"
    /\ run[1] > 0
    /\ run[2] < Len(pos)

KeptRuns(pos) == {run \in Runs(pos) : ~InWindow(pos, run)}

ComponentsOf(a) ==
    IF "components" \in DOMAIN a
    THEN {a.components[j] : j \in DOMAIN a.components} ELSE {}

\* C30: the components of a cluster that holds an ADPOSITION are exactly its
\* maximal runs of non-ADPOSITION tokens, without the runs that are a single
\* NOUN between two ADPOSITION tokens; each carries the pos_seq and lemma_seq
\* of its run, none holds an ADPOSITION, each is shorter than the cluster, and
\* a run that is a reserved category word is among them.
C30_ComponentsAreRuns ==
    "parse_noun_groups" \in ops =>
        \A i \in DOMAIN ng :
            HasTag(ng[i].attr.pos_seq, "ADPOSITION") =>
                /\ {c.name : c \in ComponentsOf(ng[i].attr)} =
                      {Slice(ng[i].name, run[1], run[2]) : run \in KeptRuns(ng[i].attr.pos_seq)}
                /\ \A c \in ComponentsOf(ng[i].attr) :
                      /\ ~HasTag(c.attr.pos_seq, "ADPOSITION")
                      /\ Len(c.name) < Len(ng[i].name)
                      /\ \E run \in KeptRuns(ng[i].attr.pos_seq) :
                             /\ c.name = Slice(ng[i].name, run[1], run[2])
                             /\ c.attr.pos_seq = Slice(ng[i].attr.pos_seq, run[1], run[2])
                             /\ c.attr.lemma_seq = Slice(ng[i].attr.lemma_seq, run[1], run[2])
                /\ \A run \in KeptRuns(ng[i].attr.pos_seq) :
                      Slice(ng[i].name, run[1], run[2]) \in category_names =>
                          \E c \in ComponentsOf(ng[i].attr) :
                              c.name = Slice(ng[i].name, run[1], run[2])

\* 'wet water of mass of property' has been parsed: one cluster whose
\* components are 'wet water' and the reserved word 'property', not 'mass'.
C30_Witness ==
    /\ last.op = "parse_noun_groups"
    /\ words = <<"wet", "water", "of", "mass", "of", "property">>
    /\ Len(ng) = 1
    /\ {c.name : c \in ComponentsOf(ng[1].attr)} = {<<"wet", "water">>, <<"property">>}


====
